---------------------------- MODULE Spec2Model ----------------------------
(***************************************************************************)
(* A model of the vtcode tool layer: the command tool's policy checks, the *)
(* patch engine (path validation, content computation, atomic write,       *)
(* apply) and the workspace-trust gate.                                    *)
(*                                                                         *)
(* Text is modelled as a sequence of one-character strings, so that        *)
(* `contains`, `split`, `trim` and quoting are computed as the code        *)
(* computes them.  Each subsystem has its own variables, its own           *)
(* next-state relation and its own specification; the variables of the     *)
(* other subsystems stay at their initial values.                          *)
(***************************************************************************)
EXTENDS Integers, Sequences, FiniteSets, TLC

VARIABLES
    cmdInput,      \* the EnhancedTerminalInput of the last run_terminal_cmd call
    cmdResult,     \* its outcome: "none", "ok" or the error text's tag
    cmdSpawned,    \* whether a child process was started for it
    cmdInvocation, \* the CommandInvocation built for it
    pathInput,     \* the raw_path of the last validate_patch_path call
    pathResult,    \* its outcome: "none", "ok" or the InvalidPath reason
    dotfile,       \* workspace_trust.entries of the user's dotfile, by workspace key
    trustPc,       \* per caller: "idle", "loaded" (config read) or "done"
    trustCall,     \* per caller: the trust function called and its arguments
    trustSeen,     \* per caller: current_level as read from the loaded config
    trustResult,   \* per caller: the value returned
    docState,      \* the patched document: "idle", "applied" or "reapplied"
    docExisting,   \* its content before the patch
    docChunks,     \* the chunks of the UpdateFile operation applied to it
    docFirst,      \* the outcome of compute_new_content on docExisting
    docSecond,     \* the outcome of compute_new_content on the first result
    waPc,          \* write_atomic: the step the writer is at
    waOld,         \* the target file as it was when write_atomic was called
    waContent,     \* the content write_atomic was given
    waTarget,      \* the target file
    waTemp,        \* the temp file
    waResult,      \* "none", "Ok" or the action of the Io error returned
    waCleanup,     \* whether remove_file was called on the temp file
    waKilled,      \* whether the writer was killed before it returned
    fsFiles,       \* apply: the files of the workspace, by relative path
    fsDirs,        \* apply: the directories of the workspace (its root apart)
    fsStale,       \* apply: the temp files left behind, by applier and operation
    apPc,          \* apply: the step each applier is at
    apOps,         \* apply: the operations each applier was given
    apIndex,       \* apply: the operation each applier is at
    apNew,         \* apply: the new content an applier computed and has not written yet
    apError,       \* apply: the error each applier returned
    apResults,     \* apply: the result lines each applier has pushed
    seekPc,        \* seek: "idle" or "done"
    seekInput,     \* seek: the lines of the matcher, the pattern, the cursor and the eof flag
    seekResult,    \* seek: the index returned, or None
    ctxPc,         \* context manager: "new" before ContextManager::new, "ready" after
    ctxConfig,     \* context manager: its ContextTrimConfig
    ctxHistory,    \* context manager: the history, a sequence of messages
    ctxBefore,     \* context manager: the history as the last call found it
    ctxLast,       \* context manager: the last call made on the history
    ctxPushed,     \* context manager: how many messages were ever pushed
    execPc,        \* position of CodeExecutor::execute
    execEnforceable,\* whether the sandbox_profile given to CodeExecutor::new can be enforced here
    execInterpreter,\* whether language.interpreter() can be started here
    execScript,    \* whether <workspace>/.vtcode/code_temp exists
    execWrote,     \* whether this execute call has written the temp script
    execSpawned,   \* whether the interpreter child has been started
    execResult,    \* what execute returned
    execRequest,   \* id in <workspace>/.vtcode/request.json, 0 when the file is missing
    execResponse,  \* id in <workspace>/.vtcode/response.json, 0 when the file is missing
    childPc,       \* position of the interpreter child
    childWritten,  \* ids of the ToolRequests the child has written
    childRaised,   \* whether an SDK wrapper has raised in the child
    ipcLast,       \* what ToolIpcHandler::read_request returned last
    ipcUsed,       \* whether the handler moved a request or a response while the child ran
    sdkPc,         \* position of the generate_sdk call
    sdkTools,      \* names of the tools list_mcp_tools returned
    sdkResult,     \* what generate_sdk returned
    jsonPc,        \* position of the extract_json_result call
    jsonSnippet,   \* what the snippet itself printed to stdout
    jsonAssigned,  \* the JSON text of the value the snippet assigned to result, if any
    jsonResult,    \* what extract_json_result returned
    acpRegistry,   \* AgentRegistry.agents: the map from agent id to AgentInfo
    acpNow,        \* chrono::Utc::now() as a counter
    acpCall,       \* the AcpClient call in progress, if any
    acpPosts,      \* the messages POSTed to /messages so far
    acpNextId,     \* how many message ids have been drawn
    acpLog,        \* the registry operation a caller made last
    ACP_CONNECTION,\* the static OnceLock<Arc<AgentSideConnection>>
    connCall,      \* each caller's register_acp_connection call
    connSeen,      \* what acp_connection() returned to each caller last
    cache,         \* CommandResolver.cache
    cache_hits,    \* CommandResolver.cache_hits
    cache_misses,  \* CommandResolver.cache_misses
    resLast,       \* the last call on the resolver and what it returned
    resCalls,      \* how many resolve calls have been made
    resSeen,       \* for each base command resolved since the last clear_cache, what its first resolve returned
    listPc,        \* position of the render_list_dir_output call
    listVal,       \* the pagination fields of the list_files payload
    listOut,       \* the summary line rendered, or the panic
    confPc,        \* position of the apply call on one validated operation
    confOp,        \* the operation: its kind, path and move destination
    confTouched,   \* the paths the operation's filesystem calls were issued on
    codeTemp,      \* the content of <workspace>/.vtcode/code_temp, or NoScript
    racePc,        \* position of each concurrent execute call
    raceCode,      \* the program each call was given
    raceRan,       \* what the interpreter of each call found at the script path
    ipcFile,       \* request.json in the IPC directory
    ipcWritten,    \* number of requests the code has written so far
    ipcDelivered,  \* the ids of the requests returned to a caller, in order
    ipcReturn,     \* what the last read_request or wait_for_request call returned
    waitPc,        \* position of the wait_for_request call
    waitStart,     \* the instant wait_for_request started and its timeout
    ipcClock,      \* the clock, in sleeps of 100 ms
    toolClient,    \* AcpTool.client: None, or the registry of the AcpClient it holds
    toolRegistry,  \* AcpTool.registry, the registry AcpTool::registry() returns
    toolCall       \* the last tool call: its arguments and what validate_args and execute returned

cmdVars == <<cmdInput, cmdResult, cmdSpawned, cmdInvocation>>
pathVars == <<pathInput, pathResult>>
trustVars == <<dotfile, trustPc, trustCall, trustSeen, trustResult>>
docVars == <<docState, docExisting, docChunks, docFirst, docSecond>>
waVars == <<waPc, waOld, waContent, waTarget, waTemp, waResult, waCleanup, waKilled>>
apVars == <<fsFiles, fsDirs, fsStale, apPc, apOps, apIndex, apNew, apError, apResults>>
seekVars == <<seekPc, seekInput, seekResult>>
ctxVars == <<ctxPc, ctxConfig, ctxHistory, ctxBefore, ctxLast, ctxPushed>>
execVars == <<execPc, execEnforceable, execInterpreter, execScript, execWrote, execSpawned, execResult, execRequest, execResponse, childPc, childWritten, childRaised, ipcLast, ipcUsed>>
sdkVars == <<sdkPc, sdkTools, sdkResult>>
jsonVars == <<jsonPc, jsonSnippet, jsonAssigned, jsonResult>>
acpVars == <<acpRegistry, acpNow, acpCall, acpPosts, acpNextId, acpLog>>
connVars == <<ACP_CONNECTION, connCall, connSeen>>
resVars == <<cache, cache_hits, cache_misses, resLast, resCalls, resSeen>>
listVars == <<listPc, listVal, listOut>>
confVars == <<confPc, confOp, confTouched>>
raceVars == <<codeTemp, racePc, raceCode, raceRan>>
ipcVars == <<ipcFile, ipcWritten, ipcDelivered, ipcReturn, waitPc, waitStart, ipcClock>>
toolVars == <<toolClient, toolRegistry, toolCall>>
vars == <<cmdVars, pathVars, trustVars, docVars, waVars, apVars, seekVars, ctxVars, execVars, sdkVars, jsonVars, acpVars, connVars, resVars, listVars, confVars, raceVars, ipcVars, toolVars>>

None == "None"

(***************************************************************************)
(* Text helpers.                                                           *)
(***************************************************************************)

\* str::contains
Contains(s, pat) ==
    \E i \in 1..(Len(s) - Len(pat) + 1) : SubSeq(s, i, i + Len(pat) - 1) = pat

\* slice::join / Iterator::join with a separator
RECURSIVE JoinWith(_, _)
JoinWith(parts, sep) ==
    IF parts = <<>> THEN <<>>
    ELSE IF Len(parts) = 1 THEN parts[1]
    ELSE parts[1] \o sep \o JoinWith(Tail(parts), sep)

\* str::split on one separator character (always yields at least one part)
RECURSIVE SplitOn(_, _)
SplitOn(s, sep) ==
    IF \A i \in 1..Len(s) : s[i] # sep THEN <<s>>
    ELSE LET k == CHOOSE i \in 1..Len(s) :
                      s[i] = sep /\ \A j \in 1..(i - 1) : s[j] # sep
         IN  <<SubSeq(s, 1, k - 1)>> \o SplitOn(SubSeq(s, k + 1, Len(s)), sep)

\* the elements of a sequence that satisfy a test, in order
RECURSIVE SelectNonEmpty(_)
SelectNonEmpty(parts) ==
    IF parts = <<>> THEN <<>>
    ELSE IF parts[1] = <<>> THEN SelectNonEmpty(Tail(parts))
    ELSE <<parts[1]>> \o SelectNonEmpty(Tail(parts))

\* all sequences over S of length 0..n
SeqsUpTo(S, n) == UNION {[1..k -> S] : k \in 0..n}

UpperChars == <<"A", "B", "C", "D", "E", "F", "G", "H", "I", "J", "K", "L", "M",
                "N", "O", "P", "Q", "R", "S", "T", "U", "V", "W", "X", "Y", "Z">>
LowerChars == <<"a", "b", "c", "d", "e", "f", "g", "h", "i", "j", "k", "l", "m",
                "n", "o", "p", "q", "r", "s", "t", "u", "v", "w", "x", "y", "z">>
DigitChars == {"0", "1", "2", "3", "4", "5", "6", "7", "8", "9"}

Range(f) == {f[i] : i \in DOMAIN f}

\* char::is_whitespace, restricted to the white space the model's texts use
IsWhitespace(c) == c \in {" ", "\t", "\n", "\r"}

\* char::is_ascii_alphanumeric
AsciiAlphanumerics == Range(UpperChars) \cup Range(LowerChars) \cup DigitChars
IsAsciiAlphanumeric(c) == c \in AsciiAlphanumerics

\* str::to_ascii_lowercase
AsciiUppercase == Range(UpperChars)
ToAsciiLowercase(s) ==
    [i \in 1..Len(s) |->
        IF s[i] \in AsciiUppercase
        THEN LowerChars[CHOOSE k \in 1..26 : UpperChars[k] = s[i]]
        ELSE s[i]]


(***************************************************************************)
(* Option values: None is the empty sequence, Some(x) the sequence <<x>>.  *)
(***************************************************************************)
NoneOpt == <<>>
Some(x) == <<x>>
IsSome(o) == Len(o) = 1
Unwrap(o) == o[1]
\* Option::or_else / unwrap_or_else
OrElse(o, other) == IF IsSome(o) THEN o ELSE other

(***************************************************************************)
(* The command tool (vtcode-core/src/tools/command.rs).                    *)
(***************************************************************************)
S_rm == <<"r", "m">>
S_rmdir == <<"r", "m", "d", "i", "r">>
S_del == <<"d", "e", "l">>
S_format == <<"f", "o", "r", "m", "a", "t">>
S_fdisk == <<"f", "d", "i", "s", "k">>
S_mkfs == <<"m", "k", "f", "s">>
S_dd == <<"d", "d">>
S_rm_rf_root == <<"r", "m", " ", "-", "r", "f", " ", "/">>
S_sudo_rm == <<"s", "u", "d", "o", " ", "r", "m">>
S_sh == <<"s", "h">>
S_bash == <<"b", "a", "s", "h">>
S_zsh == <<"z", "s", "h">>
S_dash == <<"d", "a", "s", "h">>
S_ksh == <<"k", "s", "h">>
S_fish == <<"f", "i", "s", "h">>
S_pwsh == <<"p", "w", "s", "h">>
S_powershell == <<"p", "o", "w", "e", "r", "s", "h", "e", "l", "l">>
S_powershell_exe == <<"p", "o", "w", "e", "r", "s", "h", "e", "l", "l", ".", "e", "x", "e">>
S_cmd == <<"c", "m", "d">>
S_cmd_exe == <<"c", "m", "d", ".", "e", "x", "e">>
S_flag_c == <<"-", "c">>
S_flag_lc == <<"-", "l", "c">>
S_flag_command == <<"-", "c", "o", "m", "m", "a", "n", "d">>
S_slash_c == <<"/", "c">>
S_NoProfile == <<"-", "N", "o", "P", "r", "o", "f", "i", "l", "e">>
S_Command == <<"-", "C", "o", "m", "m", "a", "n", "d">>
S_slash_C == <<"/", "C">>
S_bin_bash == <<"/", "b", "i", "n", "/", "b", "a", "s", "h">>
S_bin_sh == <<"/", "b", "i", "n", "/", "s", "h">>
S_ls == <<"l", "s">>
S_rf == <<"-", "r", "f">>
S_root == <<"/">>
S_sudo == <<"s", "u", "d", "o">>
S_rm_x == <<"r", "m", " ", "x">>
S_dd_x == <<"d", "d", " ", "x">>
S_blank == <<" ">>

ErrEmptyCommand == "Command cannot be empty"
ErrDangerousCommand == "Dangerous command not allowed"
ErrDangerousPattern == "Potentially dangerous command pattern detected"
ErrDangerousScript == "Potentially dangerous command pattern detected in shell command"

\* quote_argument: the characters that need no quoting besides alphanumerics
SafePunctuation == {"-", "_", ".", "/", ":", "@"}

RECURSIVE QuoteChars(_)
QuoteChars(arg) ==
    IF arg = <<>> THEN <<>>
    ELSE (IF arg[1] = "'" THEN <<"'", "\"", "'", "\"", "'">> ELSE <<arg[1]>>)
         \o QuoteChars(Tail(arg))

quote_argument(arg) ==
    IF arg = <<>> THEN <<"'", "'">>
    ELSE IF \A i \in 1..Len(arg) :
                IsAsciiAlphanumeric(arg[i]) \/ arg[i] \in SafePunctuation
         THEN arg
         ELSE <<"'">> \o QuoteChars(arg) \o <<"'">>

join_command_for_shell(command) ==
    JoinWith([i \in 1..Len(command) |-> quote_argument(command[i])], <<" ">>)

\* Path::file_name on a Unix path: the last component, unless the path ends
\* in `..` or has no normal component
PathFileName(program) ==
    LET parts == SelectNonEmpty(SplitOn(program, "/"))
        named == SelectSeq(parts, LAMBDA c : c # <<".">>)
    IN  IF named = <<>> \/ named[Len(named)] = <<".", ".">>
        THEN NoneOpt
        ELSE Some(named[Len(named)])

shell_program_name(program) ==
    ToAsciiLowercase(Unwrap(OrElse(PathFileName(program), Some(program))))

is_shell_program(program) ==
    shell_program_name(program) \in
        {S_sh, S_bash, S_zsh, S_dash, S_ksh, S_fish, S_pwsh, S_powershell,
         S_powershell_exe, S_cmd, S_cmd_exe}

\* the argument that follows the first argument matching one of `flags`,
\* compared ignoring ASCII case
ArgAfterFlag(args, flags) ==
    IF \E i \in 1..Len(args) : ToAsciiLowercase(args[i]) \in flags
    THEN LET k == CHOOSE i \in 1..Len(args) :
                      /\ ToAsciiLowercase(args[i]) \in flags
                      /\ \A j \in 1..(i - 1) : ToAsciiLowercase(args[j]) \notin flags
         IN  IF k < Len(args) THEN Some(args[k + 1]) ELSE NoneOpt
    ELSE NoneOpt

extract_shell_script(program, args) ==
    LET name == shell_program_name(program)
    IN  IF name \in {S_sh, S_bash, S_zsh, S_ksh, S_dash, S_fish}
        THEN IF Len(args) >= 2 /\ args[1] \in {S_flag_c, S_flag_lc}
             THEN Some(args[2])
             ELSE NoneOpt
        ELSE IF name \in {S_pwsh, S_powershell, S_powershell_exe}
        THEN ArgAfterFlag(args, {S_flag_command, S_flag_c})
        ELSE IF name \in {S_cmd, S_cmd_exe}
        THEN ArgAfterFlag(args, {S_slash_c})
        ELSE NoneOpt

build_shell_arguments(shell, login, script) ==
    LET name == shell_program_name(shell)
    IN  IF name \in {S_cmd, S_cmd_exe} THEN <<S_slash_C, script>>
        ELSE IF name \in {S_pwsh, S_powershell, S_powershell_exe}
        THEN (IF login THEN <<S_NoProfile>> ELSE <<>>) \o <<S_Command, script>>
        ELSE <<(IF login THEN S_flag_lc ELSE S_flag_c), script>>

\* default_shell with neither SHELL nor COMSPEC set, on a non-Windows build
default_shell == S_bin_bash

NoInvocation == [program |-> <<>>, args |-> <<>>, display |-> <<>>, used_shell |-> FALSE]

\* detect_explicit_shell: Some(invocation) when command[0] is a shell program
detect_explicit_shell(command, raw_command) ==
    IF command = <<>> THEN NoneOpt
    ELSE IF ~is_shell_program(command[1]) THEN NoneOpt
    ELSE LET program == command[1]
             args == Tail(command)
             display == Unwrap(OrElse(OrElse(raw_command,
                                             extract_shell_script(program, args)),
                                      Some(join_command_for_shell(command))))
         IN  Some([program |-> program, args |-> args, display |-> display,
                   used_shell |-> TRUE])

DangerousCommands == {S_rm, S_rmdir, S_del, S_format, S_fdisk, S_mkfs, S_dd}

\* validate_command_segments without the check of the program name
validate_command_segments_pattern_only(command) ==
    LET program == command[1]
        full_command == JoinWith(command, <<" ">>)
    IN  IF \E i \in 1..Len(program) : IsWhitespace(program[i]) THEN None
        ELSE IF Contains(full_command, S_rm_rf_root) \/ Contains(full_command, S_sudo_rm)
        THEN ErrDangerousPattern
        ELSE None

\* validate_command_segments: None or the error
validate_command_segments(command) ==
    LET program == command[1]
        full_command == JoinWith(command, <<" ">>)
    IN  IF \E i \in 1..Len(program) : IsWhitespace(program[i]) THEN None
        ELSE IF program \in DangerousCommands THEN ErrDangerousCommand
        ELSE IF Contains(full_command, S_rm_rf_root) \/ Contains(full_command, S_sudo_rm)
        THEN ErrDangerousPattern
        ELSE None

\* validate_script: None or the error
validate_script(script) ==
    IF \/ Contains(script, S_rm_rf_root)
       \/ Contains(script, S_sudo_rm)
       \/ Contains(script, S_format)
       \/ Contains(script, S_fdisk)
       \/ Contains(script, S_mkfs)
    THEN ErrDangerousScript
    ELSE None

Failed(err) == [error |-> err, invocation |-> NoInvocation]
Prepared(inv) == [error |-> None, invocation |-> inv]

\* str::trim().is_empty()
IsBlank(s) == \A i \in 1..Len(s) : IsWhitespace(s[i])

\* prepare_invocation: the error, or the CommandInvocation to run
prepare_invocation(input) ==
    IF input.command = <<>> THEN Failed(ErrEmptyCommand)
    ELSE IF validate_command_segments(input.command) # None
    THEN Failed(validate_command_segments(input.command))
    ELSE LET explicit == detect_explicit_shell(input.command, input.raw_command)
         IN  IF IsSome(explicit)
             THEN IF validate_script(Unwrap(explicit).display) # None
                  THEN Failed(validate_script(Unwrap(explicit).display))
                  ELSE Prepared(Unwrap(explicit))
             ELSE LET script == IF IsSome(input.raw_command)
                                THEN Unwrap(input.raw_command)
                                ELSE join_command_for_shell(input.command)
                      shell == IF IsSome(input.shell) /\ ~IsBlank(Unwrap(input.shell))
                               THEN Unwrap(input.shell)
                               ELSE default_shell
                      login == IF IsSome(input.login) THEN Unwrap(input.login) ELSE TRUE
                  IN  IF validate_script(script) # None
                      THEN Failed(validate_script(script))
                      ELSE Prepared([program |-> shell,
                                     args |-> build_shell_arguments(shell, login, script),
                                     display |-> script,
                                     used_shell |-> TRUE])

\* The inputs of run_terminal_cmd the model draws from.
MaxCmdLen == 3
CmdTokens == {S_rm, S_rf, S_root, S_sudo, S_ls, S_bin_sh, S_flag_c, S_rm_x}
RawCommands == {NoneOpt, Some(S_ls), Some(S_dd_x), Some(S_mkfs)}
ShellChoices == {NoneOpt, Some(S_blank), Some(S_zsh)}
LoginChoices == {NoneOpt, Some(FALSE)}
CmdInputs ==
    [command : SeqsUpTo(CmdTokens, MaxCmdLen), raw_command : RawCommands,
     shell : ShellChoices, login : LoginChoices]

NoCmdInput ==
    [command |-> <<>>, raw_command |-> NoneOpt, shell |-> NoneOpt, login |-> NoneOpt]

CmdInit ==
    /\ cmdInput = NoCmdInput
    /\ cmdResult = "none"
    /\ cmdSpawned = FALSE
    /\ cmdInvocation = NoInvocation

\* execute_terminal_command: Command::output is called on the invocation; it
\* runs the process to its end, times out, or fails to start it
TerminalOutcomes == {"ok", "timed out", "failed to run command"}

\* CommandTool::execute, called when no call is in progress
CommandToolExecute ==
    /\ cmdResult = "none"
    /\ \E input \in CmdInputs, outcome \in TerminalOutcomes :
           LET prepared == prepare_invocation(input)
           IN  /\ cmdInput' = input
               /\ IF prepared.error # None
                  THEN /\ cmdResult' = prepared.error
                       /\ cmdSpawned' = FALSE
                       /\ cmdInvocation' = NoInvocation
                  ELSE /\ cmdResult' = outcome
                       /\ cmdSpawned' = (outcome # "failed to run command")
                       /\ cmdInvocation' = prepared.invocation
    /\ UNCHANGED <<pathVars, trustVars, docVars, waVars, apVars, seekVars, ctxVars, execVars, sdkVars, jsonVars, acpVars, connVars, resVars, listVars, confVars, raceVars, ipcVars, toolVars>>

\* the caller takes the result; the tool keeps no state between calls
CommandToolReturn ==
    /\ cmdResult # "none"
    /\ cmdInput' = NoCmdInput
    /\ cmdResult' = "none"
    /\ cmdSpawned' = FALSE
    /\ cmdInvocation' = NoInvocation
    /\ UNCHANGED <<pathVars, trustVars, docVars, waVars, apVars, seekVars, ctxVars, execVars, sdkVars, jsonVars, acpVars, connVars, resVars, listVars, confVars, raceVars, ipcVars, toolVars>>

CmdNext ==
    \/ CommandToolExecute
    \/ CommandToolReturn

\* the first whitespace-separated token of a text
RECURSIVE SkipWhitespace(_)
SkipWhitespace(s) ==
    IF s # <<>> /\ IsWhitespace(s[1]) THEN SkipWhitespace(Tail(s)) ELSE s

RECURSIVE TakeWord(_)
TakeWord(s) ==
    IF s = <<>> \/ IsWhitespace(s[1]) THEN <<>> ELSE <<s[1]>> \o TakeWord(Tail(s))

BaseCommand(text) == TakeWord(SkipWhitespace(text))

\* the texts in which an input carries its command: the tokens joined, the
\* raw_command, and the script handed to an explicit shell program
CommandTexts(input) ==
    {JoinWith(input.command, <<" ">>)}
    \cup {Unwrap(input.raw_command) : x \in {1} \cap {Len(input.raw_command)}}
    \cup (IF input.command # <<>> /\ is_shell_program(input.command[1])
          THEN LET script == extract_shell_script(input.command[1], Tail(input.command))
               IN  {Unwrap(script) : x \in {1} \cap {Len(script)}}
          ELSE {})

DeniedBaseCommands == {S_rm, S_rmdir, S_del, S_dd}
DeniedPatterns == {S_rm_rf_root, S_sudo_rm, S_mkfs, S_fdisk, S_format}

IsDangerousText(text) ==
    \/ BaseCommand(text) \in DeniedBaseCommands
    \/ \E pat \in DeniedPatterns : Contains(text, pat)

CmdErrors == {ErrEmptyCommand, ErrDangerousCommand, ErrDangerousPattern, ErrDangerousScript}

\* C1: every run_terminal_cmd input whose command has a denied base command
\* (rm, rmdir, del, dd) or contains a denied pattern, however it is given
\* (tokens, one string, raw_command, explicit shell), ends in an error with no
\* process spawned.
C1_DangerousCommandDenied ==
    (cmdResult # "none" /\ \E text \in CommandTexts(cmdInput) : IsDangerousText(text))
        => (cmdResult \in CmdErrors /\ ~cmdSpawned)

\* The kind a tool-local error is reported with
ErrorKind(error) ==
    CASE error \in {ErrDangerousCommand, ErrDangerousPattern, ErrDangerousScript} -> "PolicyDenied"
      [] error = ErrEmptyCommand -> "InvalidArgs"
      [] OTHER -> "none"

\* A call with command ["rm", "-rf", "/"] has ended
RmRfRootCalled == cmdResult # "none" /\ cmdInput.command = <<S_rm, S_rf, S_root>>

\* C31 as stated: a run_terminal_cmd call with command ["rm", "-rf", "/"] is
\* refused with the error text "Potentially dangerous command pattern
\* detected", kind PolicyDenied, and no process is spawned.
C31_RmRfRootPatternError ==
    RmRfRootCalled =>
        /\ cmdResult = ErrDangerousPattern
        /\ ErrorKind(cmdResult) = "PolicyDenied"
        /\ ~cmdSpawned

\* C31 amended: the call is refused with the error text "Dangerous command
\* not allowed" naming the program rm, kind PolicyDenied, and no process is
\* spawned.
C31_RmRfRootDenied ==
    RmRfRootCalled =>
        /\ cmdResult = ErrDangerousCommand
        /\ ErrorKind(cmdResult) = "PolicyDenied"
        /\ ~cmdSpawned

C31_Witness == RmRfRootCalled /\ IsSome(cmdInput.raw_command)

(***************************************************************************)
(* Patch path validation (vtcode-core/src/tools/editing/patch/path.rs).    *)
(***************************************************************************)
ControlChars == {"NUL", "\r", "\n", "\t"}

\* Path::is_absolute on a Unix path
IsAbsolute(raw_path) == raw_path # <<>> /\ raw_path[1] = "/"

\* The kind of every component of Path::components on a Unix path: a leading
\* `/` is RootDir, a leading `.` is CurDir, `..` is ParentDir, any other
\* non-empty part is Normal; empty parts and later `.` parts are skipped.
PathComponents(raw_path) ==
    LET parts == SplitOn(raw_path, "/")
        kind(i) == IF parts[i] = <<".", ".">> THEN "ParentDir"
                   ELSE IF parts[i] = <<".">> /\ i = 1 THEN "CurDir"
                   ELSE "Normal"
        kept == SelectSeq([i \in 1..Len(parts) |-> i],
                          LAMBDA i : /\ parts[i] # <<>>
                                     /\ (parts[i] = <<".">> => i = 1))
    IN  (IF IsAbsolute(raw_path) THEN <<"RootDir">> ELSE <<>>)
        \o [j \in 1..Len(kept) |-> kind(kept[j])]

\* validate_patch_path without the scan of the components
validate_patch_path_no_components(raw_path) ==
    IF raw_path = <<>> THEN "path is empty"
    ELSE IF \E i \in 1..Len(raw_path) : raw_path[i] \in ControlChars
    THEN "path contains control characters"
    ELSE IF IsAbsolute(raw_path) THEN "path must be relative"
    ELSE IF Contains(raw_path, <<"/", "/">>) THEN "path contains consecutive separators"
    ELSE "ok"

\* validate_patch_path: "ok" or the reason of the InvalidPath error
validate_patch_path(raw_path) ==
    IF raw_path = <<>> THEN "path is empty"
    ELSE IF \E i \in 1..Len(raw_path) : raw_path[i] \in ControlChars
    THEN "path contains control characters"
    ELSE IF IsAbsolute(raw_path) THEN "path must be relative"
    ELSE IF \E i \in 1..Len(PathComponents(raw_path)) :
                PathComponents(raw_path)[i] \in {"ParentDir", "RootDir", "Prefix"}
    THEN "path escapes workspace"
    ELSE IF Contains(raw_path, <<"/", "/">>) THEN "path contains consecutive separators"
    ELSE "ok"

MaxPathLen == 4
PathChars == {"a", ".", "/", "NUL", "\r", "\n", "\t"}
PathStrings == SeqsUpTo(PathChars, MaxPathLen)

PathInit ==
    /\ pathInput = <<>>
    /\ pathResult = "none"

ValidatePatchPath ==
    /\ pathResult = "none"
    /\ \E raw_path \in PathStrings :
           /\ pathInput' = raw_path
           /\ pathResult' = validate_patch_path(raw_path)
    /\ UNCHANGED <<cmdVars, trustVars, docVars, waVars, apVars, seekVars, ctxVars, execVars, sdkVars, jsonVars, acpVars, connVars, resVars, listVars, confVars, raceVars, ipcVars, toolVars>>

\* the caller takes the result; the validator keeps no state between calls
ValidatePatchPathReturn ==
    /\ pathResult # "none"
    /\ pathInput' = <<>>
    /\ pathResult' = "none"
    /\ UNCHANGED <<cmdVars, trustVars, docVars, waVars, apVars, seekVars, ctxVars, execVars, sdkVars, jsonVars, acpVars, connVars, resVars, listVars, confVars, raceVars, ipcVars, toolVars>>

PathNext ==
    \/ ValidatePatchPath
    \/ ValidatePatchPathReturn

HasControlChar(raw_path) == \E i \in 1..Len(raw_path) : raw_path[i] \in ControlChars

\* a `..` delimited by `/` or by the ends of the string
HasParentDirPart(raw_path) ==
    \E i, j \in 1..Len(raw_path) :
        /\ j = i + 1
        /\ raw_path[i] = "." /\ raw_path[j] = "."
        /\ (i = 1 \/ raw_path[i - 1] = "/")
        /\ (j = Len(raw_path) \/ raw_path[j + 1] = "/")

\* C2 as stated: validate_patch_path rejects every path string that contains
\* `..`, starts with `/`, contains NUL, CR, LF or TAB, or contains `//`.
C2_RejectsEveryDotDot ==
    (/\ pathResult # "none"
     /\ \/ Contains(pathInput, <<".", ".">>)
        \/ IsAbsolute(pathInput)
        \/ HasControlChar(pathInput)
        \/ Contains(pathInput, <<"/", "/">>))
        => pathResult # "ok"

\* C2 as amended: validate_patch_path rejects every path string that has a
\* `..` component (a `..` delimited by `/` or the ends of the string), starts
\* with `/`, contains NUL, CR, LF or TAB, or contains `//`.
C2_RejectsUnsafePaths ==
    (/\ pathResult # "none"
     /\ \/ HasParentDirPart(pathInput)
        \/ IsAbsolute(pathInput)
        \/ HasControlChar(pathInput)
        \/ Contains(pathInput, <<"/", "/">>))
        => pathResult # "ok"

\* a relative path with a `..` component after a normal one was rejected as
\* escaping the workspace
C2_Witness ==
    /\ pathInput = <<"a", "/", ".", ".">>
    /\ pathResult = "path escapes workspace"

(***************************************************************************)
(* Patch content computation (patch/matcher.rs, patch/applicator.rs).      *)
(* A file content is a text; a line is the text between two line feeds.    *)
(* Indexes into the line array are 0-based as in the code.                 *)
(***************************************************************************)
Min(S) == CHOOSE x \in S : \A y \in S : x <= y
Max(S) == CHOOSE x \in S : \A y \in S : x >= y
Last(seq) == seq[Len(seq)]
Front(seq) == SubSeq(seq, 1, Len(seq) - 1)

\* char::is_whitespace (the Unicode White_Space property) on the characters
\* the model's lines use; the named code points stand for one character each
UnicodeSpaces == {"U+00A0", "U+2002", "U+2003", "U+2004", "U+2005", "U+2006", "U+2007",
                  "U+2008", "U+2009", "U+200A", "U+202F", "U+205F", "U+3000"}
UnicodeDashes == {"U+2010", "U+2011", "U+2012", "U+2013", "U+2014", "U+2015", "U+2212"}
UnicodeSingleQuotes == {"U+2018", "U+2019", "U+201A", "U+201B"}
UnicodeDoubleQuotes == {"U+201C", "U+201D", "U+201E", "U+201F"}
WhiteSpaceChars == {" ", "\t", "\n", "\r"} \cup UnicodeSpaces

\* str::trim_end
RECURSIVE TrimEnd(_)
TrimEnd(line) ==
    IF line # <<>> /\ Last(line) \in WhiteSpaceChars THEN TrimEnd(Front(line)) ELSE line

\* str::trim_start
RECURSIVE TrimStart(_)
TrimStart(line) ==
    IF line # <<>> /\ line[1] \in WhiteSpaceChars THEN TrimStart(Tail(line)) ELSE line

\* str::trim
Trim(line) == TrimStart(TrimEnd(line))

\* normalise: trim, then map Unicode dashes, quotes and spaces to ASCII
normalise(input) ==
    LET trimmed == Trim(input)
    IN  [i \in 1..Len(trimmed) |->
            IF trimmed[i] \in UnicodeDashes THEN "-"
            ELSE IF trimmed[i] \in UnicodeSingleQuotes THEN "'"
            ELSE IF trimmed[i] \in UnicodeDoubleQuotes THEN "\""
            ELSE IF trimmed[i] \in UnicodeSpaces THEN " "
            ELSE trimmed[i]]

\* the line as a pass of seek compares it: as it is, after trim_end, after
\* trim, or normalised
Compared(line, pass) ==
    IF pass = "exact" THEN line
    ELSE IF pass = "trim_end" THEN TrimEnd(line)
    ELSE IF pass = "trim" THEN Trim(line)
    ELSE normalise(line)

\* one pass of seek: the lowest index in search_start..=max_start at which
\* every line of the pattern is equal, as the pass compares, to the line it
\* faces
SeekPass(lines, pattern, search_start, max_start, pass) ==
    LET hits == {idx \in search_start..max_start :
                    \A offset \in 1..Len(pattern) :
                        Compared(lines[idx + offset], pass) = Compared(pattern[offset], pass)}
    IN  IF hits = {} THEN NoneOpt ELSE Some(Min(hits))

\* the first pass of passes that finds the pattern
RECURSIVE FirstPass(_, _, _, _, _)
FirstPass(lines, pattern, search_start, max_start, passes) ==
    IF passes = <<>> THEN NoneOpt
    ELSE OrElse(SeekPass(lines, pattern, search_start, max_start, passes[1]),
                FirstPass(lines, pattern, search_start, max_start, Tail(passes)))

\* seek with the four passes tried from the loosest to the strictest
seek_loosest_first(lines, pattern, start, eof) ==
    IF pattern = <<>> THEN Some(start)
    ELSE IF Len(pattern) > Len(lines) THEN NoneOpt
    ELSE FirstPass(lines, pattern,
                   IF eof /\ Len(lines) >= Len(pattern) THEN Len(lines) - Len(pattern) ELSE start,
                   Len(lines) - Len(pattern),
                   <<"normalise", "trim", "trim_end", "exact">>)

\* PatchContextMatcher::seek
seek(lines, pattern, start, eof) ==
    IF pattern = <<>> THEN Some(start)
    ELSE IF Len(pattern) > Len(lines) THEN NoneOpt
    ELSE FirstPass(lines, pattern,
                   IF eof /\ Len(lines) >= Len(pattern) THEN Len(lines) - Len(pattern) ELSE start,
                   Len(lines) - Len(pattern),
                   <<"exact", "trim_end", "trim", "normalise">>)

\* PatchChunk::to_segments: context and removed lines make the old segment,
\* context and added lines the new one
to_segments(chunk) ==
    LET old == SelectSeq(chunk.lines, LAMBDA l : l.kind \in {"Context", "Removed"})
        new == SelectSeq(chunk.lines, LAMBDA l : l.kind \in {"Context", "Added"})
    IN  [old |-> [i \in 1..Len(old) |-> old[i].text],
         new |-> [i \in 1..Len(new) |-> new[i].text]]

\* PatchChunk::has_old_lines
has_old_lines(chunk) == \E i \in 1..Len(chunk.lines) : chunk.lines[i].kind \in {"Context", "Removed"}

\* sort_by_key on the start index (a stable sort)
RECURSIVE InsertByKey(_, _)
InsertByKey(sorted, rep) ==
    IF sorted = <<>> THEN <<rep>>
    ELSE IF rep[1] < sorted[1][1] THEN <<rep>> \o sorted
    ELSE <<sorted[1]>> \o InsertByKey(Tail(sorted), rep)

RECURSIVE SortByKey(_)
SortByKey(replacements) ==
    IF replacements = <<>> THEN <<>>
    ELSE InsertByKey(SortByKey(Front(replacements)), Last(replacements))

Replaced(replacements) == [error |-> None, replacements |-> replacements]
NotReplaced(err) == [error |-> err, replacements |-> <<>>]

\* what placing one chunk gives: the cursor after it and its replacement
\* (start_idx, old_len, new_segment), or the error
Placed(line_index, replacement) ==
    [error |-> None, line_index |-> line_index, replacement |-> replacement]
NotPlaced(err) == [error |-> err, line_index |-> 0, replacement |-> <<>>]

\* compute_replacements, the end of the loop body: the segment was found, or
\* SegmentNotFound
PlaceFound(found, old_segment, new_segment) ==
    IF IsSome(found)
    THEN Placed(Unwrap(found) + Len(old_segment),
                <<Unwrap(found), Len(old_segment), new_segment>>)
    ELSE NotPlaced("SegmentNotFound")

\* compute_replacements, the retry: a segment not found whose last old line is
\* empty is sought again without it (and without a last empty new line)
PlaceRetried(original_lines, chunk, line_index, segments, found) ==
    IF ~IsSome(found) /\ segments.old # <<>> /\ Last(segments.old) = <<>>
    THEN PlaceFound(seek(original_lines, Front(segments.old), line_index, chunk.is_end_of_file),
                    Front(segments.old),
                    IF segments.new # <<>> /\ Last(segments.new) = <<>>
                    THEN Front(segments.new)
                    ELSE segments.new)
    ELSE PlaceFound(found, segments.old, segments.new)

\* compute_replacements, a chunk without old lines: an insertion at the cursor
\* if the chunk has a context, at the end of the file otherwise
PlaceInserted(original_lines, chunk, line_index, new_segment) ==
    LET insertion_idx == IF IsSome(chunk.change_context)
                         THEN IF line_index < Len(original_lines) THEN line_index
                              ELSE Len(original_lines)
                         ELSE Len(original_lines)
    IN  Placed(insertion_idx + Len(new_segment), <<insertion_idx, 0, new_segment>>)

\* compute_replacements, the loop body from to_segments on
PlaceSegments(original_lines, chunk, line_index, segments) ==
    IF ~has_old_lines(chunk)
    THEN PlaceInserted(original_lines, chunk, line_index, segments.new)
    ELSE PlaceRetried(original_lines, chunk, line_index, segments,
                      seek(original_lines, segments.old, line_index, chunk.is_end_of_file))

\* compute_replacements, the context of a chunk sought: the cursor moves past
\* it, or ContextNotFound
PlaceAnchored(original_lines, chunk, anchor) ==
    IF IsSome(anchor)
    THEN PlaceSegments(original_lines, chunk, Unwrap(anchor) + 1, to_segments(chunk))
    ELSE NotPlaced("ContextNotFound")

\* compute_replacements, the loop body for one chunk with the cursor at
\* line_index
PlaceChunk(original_lines, chunk, line_index) ==
    IF IsSome(chunk.change_context)
    THEN PlaceAnchored(original_lines, chunk,
                       seek(original_lines, <<Unwrap(chunk.change_context)>>, line_index, FALSE))
    ELSE PlaceSegments(original_lines, chunk, line_index, to_segments(chunk))

\* the loop of compute_replacements over the chunks still to place, with the
\* cursor and the replacements found so far
RECURSIVE ReplacementsFrom(_, _, _, _)
ReplacementsAfter(original_lines, chunks, replacements, placed) ==
    IF placed.error # None THEN NotReplaced(placed.error)
    ELSE ReplacementsFrom(original_lines, Tail(chunks), placed.line_index,
                          Append(replacements, placed.replacement))

ReplacementsFrom(original_lines, chunks, line_index, replacements) ==
    IF chunks = <<>> THEN Replaced(replacements)
    ELSE ReplacementsAfter(original_lines, chunks, replacements,
                           PlaceChunk(original_lines, chunks[1], line_index))

\* replacements.sort_by_key, when the loop ended without an error
SortedReplacements(placed) ==
    IF placed.error # None THEN placed
    ELSE Replaced(SortByKey(placed.replacements))

\* compute_replacements: the error, or the replacements
\* (start_idx, old_len, new_segment) sorted by start index
compute_replacements(original_lines, chunks) ==
    SortedReplacements(ReplacementsFrom(original_lines, chunks, 0, <<>>))

\* one replacement applied: up to old_len lines removed at start while start
\* is inside the array, then the new lines inserted from start on; Vec::insert
\* panics past the end of the array
ApplyReplacement(lines, rep) ==
    LET start == rep[1]
        removable == IF start < Len(lines)
                     THEN IF rep[2] < Len(lines) - start THEN rep[2] ELSE Len(lines) - start
                     ELSE 0
        kept == IF start < Len(lines)
                THEN SubSeq(lines, 1, start) \o SubSeq(lines, start + removable + 1, Len(lines))
                ELSE lines
    IN  IF rep[3] # <<>> /\ start > Len(kept)
        THEN [panic |-> TRUE, lines |-> kept]
        ELSE [panic |-> FALSE,
              lines |-> IF rep[3] = <<>> THEN kept
                        ELSE SubSeq(kept, 1, start) \o rep[3]
                             \o SubSeq(kept, start + 1, Len(kept))]

\* apply_replacements: the replacements applied from the last to the first
RECURSIVE apply_replacements(_, _)
apply_replacements(lines, replacements) ==
    IF replacements = <<>> THEN [panic |-> FALSE, lines |-> lines]
    ELSE LET one == ApplyReplacement(lines, Last(replacements))
         IN  IF one.panic THEN one
             ELSE apply_replacements(one.lines, Front(replacements))

EndsWithNewline(text) == text # <<>> /\ Last(text) = "\n"

Computed(content) == [error |-> None, content |-> content]
NotComputed(err) == [error |-> err, content |-> <<>>]

\* compute_new_content, the lines of the file: a last empty line is popped
\* when the content ended with a newline
OriginalLines(split, had_trailing_newline) ==
    IF had_trailing_newline /\ Last(split) = <<>> THEN Front(split) ELSE split

\* compute_new_content ending without ever pushing the empty line
JoinedLines_no_push(applied, push_empty) ==
    IF applied.panic THEN NotComputed("panic")
    ELSE Computed(JoinWith(applied.lines, <<"\n">>))

\* compute_new_content, its end: an empty line is pushed if the content ended
\* with a newline or a chunk is marked end-of-file, unless the last line is
\* empty already; then the lines are joined
JoinedLines(applied, push_empty) ==
    IF applied.panic THEN NotComputed("panic")
    ELSE Computed(JoinWith(IF push_empty /\ ~(applied.lines # <<>> /\ Last(applied.lines) = <<>>)
                           THEN Append(applied.lines, <<>>)
                           ELSE applied.lines,
                           <<"\n">>))

\* compute_new_content from compute_replacements on
ReplacedLines(original_lines, replacements, push_empty) ==
    IF replacements.error # None THEN NotComputed(replacements.error)
    ELSE JoinedLines(apply_replacements(original_lines, replacements.replacements), push_empty)

\* compute_new_content from the lines of the file on
NewContentOf(original_lines, chunks, push_empty) ==
    ReplacedLines(original_lines, compute_replacements(original_lines, chunks), push_empty)

\* compute_new_content: the error, or the updated content
compute_new_content(existing, chunks) ==
    NewContentOf(OriginalLines(SplitOn(existing, "\n"), EndsWithNewline(existing)),
                 chunks,
                 EndsWithNewline(existing) \/ \E i \in 1..Len(chunks) : chunks[i].is_end_of_file)

\* The contents and chunks the model draws from: every content up to
\* MaxContentLen characters, every chunk of one to MaxChunkLines lines alone,
\* and every pair of one-line chunks.
MaxContentLen == 3
MaxChunkLines == 2
ContentChars == {"a", "b", "\n"}
Contents == SeqsUpTo(ContentChars, MaxContentLen)
PatchTexts == {<<"a">>, <<"b">>}
PatchLines == [kind : {"Context", "Removed", "Added"}, text : PatchTexts]
ChunksOf(lineSeqs) ==
    [change_context : {NoneOpt, Some(<<"a">>)}, is_end_of_file : BOOLEAN, lines : lineSeqs]
ChunkLists ==
    {<<c>> : c \in ChunksOf(SeqsUpTo(PatchLines, MaxChunkLines) \ {<<>>})}
    \cup {<<c, d>> : c, d \in ChunksOf([1..1 -> PatchLines])}

NoOutcome == [error |-> "none", content |-> <<>>]

DocInit ==
    /\ docState = "idle"
    /\ docExisting = <<>>
    /\ docChunks = <<>>
    /\ docFirst = NoOutcome
    /\ docSecond = NoOutcome

\* an UpdateFile operation computes the new content of a file
DocApply ==
    /\ docState = "idle"
    /\ \E existing \in Contents, chunks \in ChunkLists :
           /\ docExisting' = existing
           /\ docChunks' = chunks
           /\ docFirst' = compute_new_content(existing, chunks)
    /\ docState' = "applied"
    /\ UNCHANGED docSecond
    /\ UNCHANGED <<cmdVars, pathVars, trustVars, waVars, apVars, seekVars, ctxVars, execVars, sdkVars, jsonVars, acpVars, connVars, resVars, listVars, confVars, raceVars, ipcVars, toolVars>>

\* the same operation is applied again, to the content the first one produced
DocReapply ==
    /\ docState = "applied"
    /\ docFirst.error = None
    /\ docSecond' = compute_new_content(docFirst.content, docChunks)
    /\ docState' = "reapplied"
    /\ UNCHANGED <<docExisting, docChunks, docFirst>>
    /\ UNCHANGED <<cmdVars, pathVars, trustVars, waVars, apVars, seekVars, ctxVars, execVars, sdkVars, jsonVars, acpVars, connVars, resVars, listVars, confVars, raceVars, ipcVars, toolVars>>

\* the document is dropped
DocReset ==
    /\ docState # "idle"
    /\ docState' = "idle"
    /\ docExisting' = <<>>
    /\ docChunks' = <<>>
    /\ docFirst' = NoOutcome
    /\ docSecond' = NoOutcome
    /\ UNCHANGED <<cmdVars, pathVars, trustVars, waVars, apVars, seekVars, ctxVars, execVars, sdkVars, jsonVars, acpVars, connVars, resVars, listVars, confVars, raceVars, ipcVars, toolVars>>

DocNext ==
    \/ DocApply
    \/ DocReapply
    \/ DocReset

\* C9: applying an UpdateFile patch again to the result of its successful
\* application never succeeds with a content different from the first result
\* (it leaves the content unchanged or fails with SegmentNotFound), also for
\* insertion-only chunks and chunks whose added lines contain their removed
\* lines.
C9_NoDoubleEdit ==
    docState = "reapplied" =>
        \/ docSecond.error = "SegmentNotFound"
        \/ (docSecond.error = None /\ docSecond.content = docFirst.content)

\* the lines compute_new_content makes of the document
DocLines == OriginalLines(SplitOn(docExisting, "\n"), EndsWithNewline(docExisting))

\* the cursor when the segments of the first chunk are placed: past its
\* context if it has one, at the start of the file otherwise
FirstCursor ==
    IF IsSome(docChunks[1].change_context)
    THEN Unwrap(seek(DocLines, <<Unwrap(docChunks[1].change_context)>>, 0, FALSE)) + 1
    ELSE 0

\* C12: a chunk that only adds lines is inserted at the cursor, or at the end
\* of the file if and only if it is flagged end-of-file, with or without a
\* change_context.
C12_InsertionAtCursorOrEof ==
    ( /\ docState = "applied"
      /\ Len(docChunks) = 1
      /\ ~has_old_lines(docChunks[1])
      /\ docFirst.error = None )
    => compute_replacements(DocLines, docChunks).replacements[1][1]
           = IF docChunks[1].is_end_of_file THEN Len(DocLines) ELSE FirstCursor

\* the replacements of the document's chunks in the order of the chunks, as
\* the loop of compute_replacements finds them
DocPlacements == ReplacementsFrom(DocLines, docChunks, 0, <<>>)

\* C34: for a patch compute_replacements accepts, each chunk's match starts at
\* or after the end of the previous chunk's match (the cursor never moves
\* backwards), so the replaced ranges of the chunks are pairwise disjoint,
\* also for EOF-flagged chunks and chunks that follow an insertion.
C34_CursorNeverMovesBack ==
    (docState = "applied" /\ DocPlacements.error = None) =>
        \A k \in 1..(Len(DocPlacements.replacements) - 1) :
            DocPlacements.replacements[k + 1][1]
                >= DocPlacements.replacements[k][1] + DocPlacements.replacements[k][2]

\* the lines of a file content: the text between line feeds, a final line
\* feed ending the last line
FileLines(content) == OriginalLines(SplitOn(content, "\n"), EndsWithNewline(content))

\* the replaced ranges follow one another inside the lines without overlap
DisjointRanges(lines, replacements) ==
    /\ \A k \in 1..(Len(replacements) - 1) :
           replacements[k + 1][1] >= replacements[k][1] + replacements[k][2]
    /\ \A k \in 1..Len(replacements) : replacements[k][1] + replacements[k][2] <= Len(lines)

\* the lines from index from on, every replaced range giving way to its new
\* segment and every other line kept in its place
RECURSIVE Spliced(_, _, _)
Spliced(lines, replacements, from) ==
    IF replacements = <<>> THEN SubSeq(lines, from + 1, Len(lines))
    ELSE SubSeq(lines, from + 1, replacements[1][1])
         \o replacements[1][3]
         \o Spliced(lines, Tail(replacements), replacements[1][1] + replacements[1][2])

\* C35: an update changes only the lines inside the matched segments: every
\* original line outside the replaced ranges, blank lines at the end of the
\* file included, is in the updated file unchanged, once, in the same order.
C35_OnlyMatchedLinesChange ==
    ( /\ docState = "applied"
      /\ docFirst.error = None
      /\ DisjointRanges(DocLines, compute_replacements(DocLines, docChunks).replacements) )
    => FileLines(docFirst.content)
           = Spliced(DocLines, compute_replacements(DocLines, docChunks).replacements, 0)

\* the document ended with a newline or a chunk is flagged end-of-file
WantsTrailingNewline ==
    EndsWithNewline(docExisting) \/ \E i \in 1..Len(docChunks) : docChunks[i].is_end_of_file

\* the lines the replacements leave, before the trailing newline is restored
DocAppliedLines ==
    apply_replacements(DocLines, compute_replacements(DocLines, docChunks).replacements).lines

\* C13, as stated: the updated content ends with a newline if the original
\* ended with one or a chunk is flagged end-of-file, and does not otherwise.
C13_TrailingNewlineRestored ==
    (docState = "applied" /\ docFirst.error = None)
        => (EndsWithNewline(docFirst.content) <=> WantsTrailingNewline)

\* C13, amended: an updated content that is not empty ends with a newline if
\* the original ended with one or a chunk is flagged end-of-file; otherwise it
\* ends with a newline only when the last line the update leaves is empty.
C13_TrailingNewlineUnlessEmpty ==
    (docState = "applied" /\ docFirst.error = None)
        => /\ (WantsTrailingNewline /\ docFirst.content # <<>>)
                  => EndsWithNewline(docFirst.content)
           /\ (~WantsTrailingNewline /\ EndsWithNewline(docFirst.content))
                  => (DocAppliedLines # <<>> /\ Last(DocAppliedLines) = <<>>)

\* a document without a trailing newline gets one from a chunk flagged
\* end-of-file
C13_Witness ==
    /\ docState = "applied"
    /\ docFirst.error = None
    /\ ~EndsWithNewline(docExisting)
    /\ \E i \in 1..Len(docChunks) : docChunks[i].is_end_of_file
    /\ docFirst.content # <<>>
    /\ EndsWithNewline(docFirst.content)

(***************************************************************************)
(* write_atomic (patch/applicator.rs), step by step.  Every file-system    *)
(* call may fail; rename may report AlreadyExists when the target exists;  *)
(* the writer may be killed between any two steps.  A file is a record:    *)
(* whether it exists, and its content.                                     *)
(***************************************************************************)
Missing == [exists |-> FALSE, content |-> <<>>]
File(content) == [exists |-> TRUE, content |-> content]

MaxWriteLen == 2
WriteChars == {"x", "y"}
WriteContents == SeqsUpTo(WriteChars, MaxWriteLen)
OldTargets == {Missing} \cup {File(c) : c \in {<<>>, <<"o">>, <<"x">>}}

WaInit ==
    /\ waPc = "idle"
    /\ waOld = Missing
    /\ waContent = <<>>
    /\ waTarget = Missing
    /\ waTemp = Missing
    /\ waResult = "none"
    /\ waCleanup = FALSE
    /\ waKilled = FALSE

\* write_atomic returns Err(Io{action, ..}) without touching the temp file
WaFail(action) ==
    /\ waPc' = "done"
    /\ waResult' = action

\* write_atomic is called on a target
WaCall ==
    /\ waPc = "idle"
    /\ \E old \in OldTargets, content \in WriteContents :
           /\ waOld' = old
           /\ waTarget' = old
           /\ waContent' = content
    /\ waPc' = "called"
    /\ UNCHANGED <<waTemp, waResult, waCleanup, waKilled>>
    /\ UNCHANGED <<cmdVars, pathVars, trustVars, docVars, apVars, seekVars, ctxVars, execVars, sdkVars, jsonVars, acpVars, connVars, resVars, listVars, confVars, raceVars, ipcVars, toolVars>>

\* fs::create_dir_all(parent) and temporary_path
WaCreateDirs ==
    /\ waPc = "called"
    /\ \/ waPc' = "dirs" /\ UNCHANGED waResult
       \/ WaFail("create directories")
    /\ UNCHANGED <<waOld, waContent, waTarget, waTemp, waCleanup, waKilled>>
    /\ UNCHANGED <<cmdVars, pathVars, trustVars, docVars, apVars, seekVars, ctxVars, execVars, sdkVars, jsonVars, acpVars, connVars, resVars, listVars, confVars, raceVars, ipcVars, toolVars>>

\* fs::File::create(&temp_path)
WaCreate ==
    /\ waPc = "dirs"
    /\ \/ waPc' = "created" /\ waTemp' = File(<<>>) /\ UNCHANGED waResult
       \/ WaFail("create") /\ UNCHANGED waTemp
    /\ UNCHANGED <<waOld, waContent, waTarget, waCleanup, waKilled>>
    /\ UNCHANGED <<cmdVars, pathVars, trustVars, docVars, apVars, seekVars, ctxVars, execVars, sdkVars, jsonVars, acpVars, connVars, resVars, listVars, confVars, raceVars, ipcVars, toolVars>>

\* file.write_all(content): the bytes reach the temp file one after the other;
\* the call returns when all are written, or fails with some of them written
WaWrite ==
    /\ waPc = "created"
    /\ \/ /\ Len(waTemp.content) < Len(waContent)
          /\ waTemp' = File(Append(waTemp.content, waContent[Len(waTemp.content) + 1]))
          /\ UNCHANGED <<waPc, waResult>>
       \/ /\ Len(waTemp.content) = Len(waContent)
          /\ waPc' = "written"
          /\ UNCHANGED <<waTemp, waResult>>
       \/ WaFail("write") /\ UNCHANGED waTemp
    /\ UNCHANGED <<waOld, waContent, waTarget, waCleanup, waKilled>>
    /\ UNCHANGED <<cmdVars, pathVars, trustVars, docVars, apVars, seekVars, ctxVars, execVars, sdkVars, jsonVars, acpVars, connVars, resVars, listVars, confVars, raceVars, ipcVars, toolVars>>

\* file.flush() and drop(file)
WaFlush ==
    /\ waPc = "written"
    /\ \/ waPc' = "flushed" /\ UNCHANGED waResult
       \/ WaFail("flush")
    /\ UNCHANGED <<waOld, waContent, waTarget, waTemp, waCleanup, waKilled>>
    /\ UNCHANGED <<cmdVars, pathVars, trustVars, docVars, apVars, seekVars, ctxVars, execVars, sdkVars, jsonVars, acpVars, connVars, resVars, listVars, confVars, raceVars, ipcVars, toolVars>>

\* fs::rename(&temp_path, path) failed with an error other than
\* AlreadyExists: the temp file is removed (best effort) and the error returned
RenameFailed ==
    /\ WaFail("rename")
    /\ waCleanup' = TRUE
    /\ waTemp' \in {Missing, waTemp}
    /\ UNCHANGED waTarget

\* fs::rename(&temp_path, path), the first attempt
WaRename ==
    /\ waPc = "flushed"
    /\ \/ /\ waPc' = "done"
          /\ waResult' = "Ok"
          /\ waTarget' = waTemp
          /\ waTemp' = Missing
          /\ UNCHANGED waCleanup
       \/ /\ waTarget.exists
          /\ waPc' = "exists"
          /\ UNCHANGED <<waResult, waTarget, waTemp, waCleanup>>
       \/ RenameFailed
    /\ UNCHANGED <<waOld, waContent, waKilled>>
    /\ UNCHANGED <<cmdVars, pathVars, trustVars, docVars, apVars, seekVars, ctxVars, execVars, sdkVars, jsonVars, acpVars, connVars, resVars, listVars, confVars, raceVars, ipcVars, toolVars>>

\* fs::remove_file(path) after AlreadyExists
WaDeleteTarget ==
    /\ waPc = "exists"
    /\ \/ waPc' = "deleted" /\ waTarget' = Missing /\ UNCHANGED waResult
       \/ WaFail("delete") /\ UNCHANGED waTarget
    /\ UNCHANGED <<waOld, waContent, waTemp, waCleanup, waKilled>>
    /\ UNCHANGED <<cmdVars, pathVars, trustVars, docVars, apVars, seekVars, ctxVars, execVars, sdkVars, jsonVars, acpVars, connVars, resVars, listVars, confVars, raceVars, ipcVars, toolVars>>

\* fs::rename(&temp_path, path), the retry
WaRenameRetry ==
    /\ waPc = "deleted"
    /\ \/ /\ waPc' = "done"
          /\ waResult' = "Ok"
          /\ waTarget' = waTemp
          /\ waTemp' = Missing
       \/ WaFail("rename") /\ UNCHANGED <<waTarget, waTemp>>
    /\ UNCHANGED <<waOld, waContent, waCleanup, waKilled>>
    /\ UNCHANGED <<cmdVars, pathVars, trustVars, docVars, apVars, seekVars, ctxVars, execVars, sdkVars, jsonVars, acpVars, connVars, resVars, listVars, confVars, raceVars, ipcVars, toolVars>>

\* the writer is killed after it created the temp file and before it returned
WaKill ==
    /\ waPc \in {"created", "written", "flushed", "exists", "deleted"}
    /\ waPc' = "done"
    /\ waKilled' = TRUE
    /\ UNCHANGED <<waOld, waContent, waTarget, waTemp, waResult, waCleanup>>
    /\ UNCHANGED <<cmdVars, pathVars, trustVars, docVars, apVars, seekVars, ctxVars, execVars, sdkVars, jsonVars, acpVars, connVars, resVars, listVars, confVars, raceVars, ipcVars, toolVars>>

\* the files are looked at and the next call prepared
WaReset ==
    /\ waPc = "done"
    /\ waPc' = "idle"
    /\ waOld' = Missing
    /\ waContent' = <<>>
    /\ waTarget' = Missing
    /\ waTemp' = Missing
    /\ waResult' = "none"
    /\ waCleanup' = FALSE
    /\ waKilled' = FALSE
    /\ UNCHANGED <<cmdVars, pathVars, trustVars, docVars, apVars, seekVars, ctxVars, execVars, sdkVars, jsonVars, acpVars, connVars, resVars, listVars, confVars, raceVars, ipcVars, toolVars>>

WaNext ==
    \/ WaCall
    \/ WaCreateDirs
    \/ WaCreate
    \/ WaWrite
    \/ WaFlush
    \/ WaRename
    \/ WaDeleteTarget
    \/ WaRenameRetry
    \/ WaKill
    \/ WaReset

\* C7: if the writer is killed between creating the temp file and the rename,
\* the target file holds its complete old content or the complete new content.
C7_OldOrNewAfterKill ==
    waKilled => waTarget \in {waOld, File(waContent)}

\* C8: whenever write_atomic reports an Io error after it has created its temp
\* file (at write, flush, the first rename, the delete of the target, the
\* retried rename), it has first attempted to remove that temp file.
C8_TempRemovedOnError ==
    (waResult \in {"write", "flush", "rename", "delete"}) => waCleanup

(***************************************************************************)
(* apply (patch/applicator.rs).  Each applier runs the operations of its   *)
(* patch in order; every file-system call is one step, write_atomic is one *)
(* step with the outcomes of the step-by-step model above.  Nothing in     *)
(* apply takes a lock, so the steps of two appliers interleave freely.     *)
(***************************************************************************)
\* what a call of write_atomic can leave: its result, the target, and whether
\* its temp file is still there
WriteAtomicOutcomes(target, content) ==
    {[result |-> "Ok", target |-> File(content), temp |-> FALSE]}
    \cup {[result |-> a, target |-> target, temp |-> FALSE] : a \in {"create directories", "create", "rename"}}
    \cup {[result |-> a, target |-> target, temp |-> TRUE] : a \in {"write", "flush", "rename"}}
    \cup (IF target.exists
          THEN {[result |-> "delete", target |-> target, temp |-> TRUE],
                [result |-> "rename", target |-> Missing, temp |-> TRUE]}
          ELSE {})

\* the step-by-step write_atomic returns nothing but these outcomes
WriteAtomicSummary ==
    (waPc = "done" /\ ~waKilled) =>
        [result |-> waResult, target |-> waTarget, temp |-> waTemp.exists]
            \in WriteAtomicOutcomes(waOld, waContent)

Appliers == {"p1", "p2"}
FsPaths == {"f", "g", "d", "d/h"}
FsInitial ==
    [path \in FsPaths |->
        IF path = "f" THEN File(<<"a", "\n", "b", "\n">>)
        ELSE IF path = "d/h" THEN File(<<"a", "\n">>)
        ELSE Missing]
DirsInitial == {"d"}

\* Path::parent, for the paths below a directory of the workspace
Parents(path) == IF path = "d/h" THEN {"d"} ELSE {}

\* the paths inside a directory
Inside(dir) == {path \in FsPaths : dir \in Parents(path)}

\* a removal that leaves the files inside the directory
RemoveDirAll_shallow(files, dir) == files

\* fs::remove_dir_all: the directory goes, and every file inside it
RemoveDirAll(files, dir) ==
    [path \in FsPaths |-> IF path \in Inside(dir) THEN Missing ELSE files[path]]

AddFile(path, content) == [kind |-> "AddFile", path |-> path, content |-> content]
DeleteFile(path) == [kind |-> "DeleteFile", path |-> path]
UpdateFile(path, new_path, chunks) ==
    [kind |-> "UpdateFile", path |-> path, new_path |-> new_path, chunks |-> chunks]

\* a chunk that replaces the line old by the line new
ReplaceLine(old, new) ==
    [change_context |-> NoneOpt, is_end_of_file |-> FALSE,
     lines |-> <<[kind |-> "Removed", text |-> old], [kind |-> "Added", text |-> new]>>]

\* the patches the appliers are given
Patches ==
    { <<>>,
      <<AddFile("g", <<"x", "\n">>)>>,
      <<DeleteFile("g")>>,
      <<DeleteFile("f")>>,
      <<UpdateFile("f", NoneOpt, <<ReplaceLine(<<"a">>, <<"c">>)>>)>>,
      <<UpdateFile("f", NoneOpt, <<ReplaceLine(<<"b">>, <<"d">>)>>)>>,
      <<UpdateFile("f", Some("g"), <<ReplaceLine(<<"a">>, <<"c">>)>>)>>,
      <<UpdateFile("f", Some("f"), <<ReplaceLine(<<"b">>, <<"d">>)>>)>>,
      <<AddFile("g", <<"x", "\n">>), UpdateFile("f", NoneOpt, <<ReplaceLine(<<"z">>, <<"c">>)>>)>>,
      <<DeleteFile("f"), UpdateFile("g", NoneOpt, <<ReplaceLine(<<"x">>, <<"y">>)>>)>>,
      <<UpdateFile("f", NoneOpt, <<ReplaceLine(<<"a">>, <<"c">>)>>), AddFile("g", <<"y", "\n">>)>>,
      <<DeleteFile("d")>>,
      <<DeleteFile("d"), DeleteFile("d")>>,
      <<DeleteFile("g"), DeleteFile("g")>>,
      <<AddFile("d/h", <<"x", "\n">>)>> }

ApInit ==
    /\ fsFiles = FsInitial
    /\ fsDirs = DirsInitial
    /\ fsStale = {}
    /\ apPc = [p \in Appliers |-> "idle"]
    /\ apOps = [p \in Appliers |-> <<>>]
    /\ apIndex = [p \in Appliers |-> 0]
    /\ apNew = [p \in Appliers |-> <<>>]
    /\ apError = [p \in Appliers |-> None]
    /\ apResults = [p \in Appliers |-> <<>>]

\* the operation applier p is at
Operation(p) == apOps[p][apIndex[p]]

\* the operation is over and has pushed result: on to the next, or Ok(results)
Advance(p, result) ==
    /\ apResults' = [apResults EXCEPT ![p] = Append(@, result)]
    /\ apIndex' = [apIndex EXCEPT ![p] = @ + 1]
    /\ apPc' = [apPc EXCEPT ![p] = IF apIndex[p] < Len(apOps[p]) THEN "op" ELSE "done"]
    /\ UNCHANGED apError

\* the operation returns an error, and apply with it
Fail(p, error) ==
    /\ apPc' = [apPc EXCEPT ![p] = "failed"]
    /\ apError' = [apError EXCEPT ![p] = error]
    /\ UNCHANGED <<apIndex, apResults>>

\* apply is called with a patch
Apply(p) ==
    /\ apPc[p] = "idle"
    /\ \E ops \in Patches :
           /\ apOps' = [apOps EXCEPT ![p] = ops]
           /\ apIndex' = [apIndex EXCEPT ![p] = 1]
           /\ apPc' = [apPc EXCEPT ![p] = IF ops = <<>> THEN "done" ELSE "op"]
    /\ UNCHANGED <<fsFiles, fsDirs, fsStale, apNew, apError, apResults>>
    /\ UNCHANGED <<cmdVars, pathVars, trustVars, docVars, waVars, seekVars, ctxVars, execVars, sdkVars, jsonVars, acpVars, connVars, resVars, listVars, confVars, raceVars, ipcVars, toolVars>>

\* write_atomic(path, content) called by applier p: the files after it
WriteAtomic(p, path, outcome) ==
    /\ fsFiles' = [fsFiles EXCEPT ![path] = outcome.target]
    /\ fsDirs' = IF outcome.result = "create directories" THEN fsDirs
                 ELSE fsDirs \cup Parents(path)
    /\ fsStale' = IF outcome.temp THEN fsStale \cup {<<p, apIndex[p]>>} ELSE fsStale

\* PatchOperation::AddFile
ApplyAddFile(p) ==
    /\ apPc[p] = "op"
    /\ Operation(p).kind = "AddFile"
    /\ \E outcome \in WriteAtomicOutcomes(fsFiles[Operation(p).path], Operation(p).content) :
           /\ WriteAtomic(p, Operation(p).path, outcome)
           /\ IF outcome.result = "Ok" THEN Advance(p, "Added file") ELSE Fail(p, outcome.result)
    /\ UNCHANGED <<apOps, apNew>>
    /\ UNCHANGED <<cmdVars, pathVars, trustVars, docVars, waVars, seekVars, ctxVars, execVars, sdkVars, jsonVars, acpVars, connVars, resVars, listVars, confVars, raceVars, ipcVars, toolVars>>

\* PatchOperation::DeleteFile
ApplyDeleteFile(p) ==
    /\ apPc[p] = "op"
    /\ Operation(p).kind = "DeleteFile"
    /\ \/ /\ Operation(p).path \in fsDirs
          /\ fsDirs' = fsDirs \ {Operation(p).path}
          /\ fsFiles' = RemoveDirAll(fsFiles, Operation(p).path)
          /\ Advance(p, "Deleted file")
       \/ /\ Operation(p).path \notin fsDirs
          /\ fsFiles[Operation(p).path].exists
          /\ fsFiles' = [fsFiles EXCEPT ![Operation(p).path] = Missing]
          /\ Advance(p, "Deleted file")
          /\ UNCHANGED fsDirs
       \/ /\ Operation(p).path \in fsDirs \/ fsFiles[Operation(p).path].exists
          /\ Fail(p, "delete")
          /\ UNCHANGED <<fsFiles, fsDirs>>
       \/ /\ Operation(p).path \notin fsDirs
          /\ ~fsFiles[Operation(p).path].exists
          /\ Advance(p, "File not found, skipped deletion")
          /\ UNCHANGED <<fsFiles, fsDirs>>
       \/ /\ Fail(p, "inspect")
          /\ UNCHANGED <<fsFiles, fsDirs>>
    /\ UNCHANGED <<fsStale, apOps, apNew>>
    /\ UNCHANGED <<cmdVars, pathVars, trustVars, docVars, waVars, seekVars, ctxVars, execVars, sdkVars, jsonVars, acpVars, connVars, resVars, listVars, confVars, raceVars, ipcVars, toolVars>>

\* PatchOperation::UpdateFile, first half: read_to_string and
\* compute_new_content
ApplyUpdateRead(p) ==
    /\ apPc[p] = "op"
    /\ Operation(p).kind = "UpdateFile"
    /\ \E source \in {fsFiles[Operation(p).path]},
          computed \in {compute_new_content(fsFiles[Operation(p).path].content, Operation(p).chunks)} :
           \/ /\ source.exists
              /\ computed.error = None
              /\ apNew' = [apNew EXCEPT ![p] = computed.content]
              /\ apPc' = [apPc EXCEPT ![p] = "write"]
              /\ UNCHANGED <<apIndex, apError, apResults>>
           \/ /\ source.exists
              /\ computed.error # None
              /\ Fail(p, computed.error)
              /\ UNCHANGED apNew
           \/ /\ Fail(p, "read")
              /\ UNCHANGED apNew
    /\ UNCHANGED <<fsFiles, fsDirs, fsStale, apOps>>
    /\ UNCHANGED <<cmdVars, pathVars, trustVars, docVars, waVars, seekVars, ctxVars, execVars, sdkVars, jsonVars, acpVars, connVars, resVars, listVars, confVars, raceVars, ipcVars, toolVars>>

\* PatchOperation::UpdateFile, second half: write_atomic to the destination
ApplyUpdateWrite(p) ==
    /\ apPc[p] = "write"
    /\ LET op == Operation(p)
           dest == IF IsSome(op.new_path) THEN Unwrap(op.new_path) ELSE op.path
       IN  \E outcome \in WriteAtomicOutcomes(fsFiles[dest], apNew[p]) :
               /\ WriteAtomic(p, dest, outcome)
               /\ IF outcome.result # "Ok" THEN Fail(p, outcome.result)
                  ELSE IF IsSome(op.new_path) /\ dest # op.path
                  THEN /\ apPc' = [apPc EXCEPT ![p] = "remove"]
                       /\ UNCHANGED <<apIndex, apError, apResults>>
                  ELSE Advance(p, "Updated file")
    /\ UNCHANGED <<apOps, apNew>>
    /\ UNCHANGED <<cmdVars, pathVars, trustVars, docVars, waVars, seekVars, ctxVars, execVars, sdkVars, jsonVars, acpVars, connVars, resVars, listVars, confVars, raceVars, ipcVars, toolVars>>

\* PatchOperation::UpdateFile with a new path: remove_file(source_path)
ApplyUpdateRemove(p) ==
    /\ apPc[p] = "remove"
    /\ \/ /\ fsFiles' = [fsFiles EXCEPT ![Operation(p).path] = Missing]
          /\ Advance(p, "Updated file")
       \/ /\ fsFiles[Operation(p).path].exists
          /\ Fail(p, "delete")
          /\ UNCHANGED fsFiles
    /\ UNCHANGED <<fsDirs, fsStale, apOps, apNew>>
    /\ UNCHANGED <<cmdVars, pathVars, trustVars, docVars, waVars, seekVars, ctxVars, execVars, sdkVars, jsonVars, acpVars, connVars, resVars, listVars, confVars, raceVars, ipcVars, toolVars>>

ApNext ==
    \E p \in Appliers :
        \/ Apply(p)
        \/ ApplyAddFile(p)
        \/ ApplyDeleteFile(p)
        \/ ApplyUpdateRead(p)
        \/ ApplyUpdateWrite(p)
        \/ ApplyUpdateRemove(p)

\* C6: if apply returns an error for an operation of the patch, no file of
\* the workspace has been added, changed, moved or deleted by that patch
\* (seen where no other applier has run, so that every change is its own).
C6_AllOrNothing ==
    \A p \in Appliers :
        (apPc[p] = "failed" /\ \A q \in Appliers \ {p} : apPc[q] = "idle")
            => fsFiles = FsInitial

\* fs::metadata finds something at the path
Exists(files, dirs, path) == path \in dirs \/ files[path].exists

\* applier p takes the step of a DeleteFile operation
DeleteFileStep(p) ==
    /\ apPc[p] = "op"
    /\ Operation(p).kind = "DeleteFile"
    /\ <<apPc'[p], apIndex'[p]>> # <<apPc[p], apIndex[p]>>

UpdatesInPlace(ops, path) ==
    /\ Len(ops) = 1
    /\ ops[1].kind = "UpdateFile"
    /\ ops[1].path = path
    /\ ops[1].new_path = NoneOpt

\* the content after the chunks of first and then those of second are applied
\* to content, an apply that returns an error leaving the content as it was
OneAfterTheOther(content, first, second) ==
    LET one == compute_new_content(content, first)
        middle == IF one.error = None THEN one.content ELSE content
        two == compute_new_content(middle, second)
    IN  IF two.error = None THEN two.content ELSE middle

\* C10: when two apply calls that update the same file run concurrently and
\* both return Ok, the final content of the file is the result of applying
\* the two patches one after the other in some order.
C10_NoLostUpdate ==
    \A p, q \in Appliers :
        ( /\ p # q
          /\ apPc[p] = "done" /\ apPc[q] = "done"
          /\ UpdatesInPlace(apOps[p], "f") /\ UpdatesInPlace(apOps[q], "f") )
        => fsFiles["f"].content \in
               { OneAfterTheOther(FsInitial["f"].content, apOps[p][1].chunks, apOps[q][1].chunks),
                 OneAfterTheOther(FsInitial["f"].content, apOps[q][1].chunks, apOps[p][1].chunks) }

(***************************************************************************)
(* Workspace trust (src/workspace_trust.rs).  The dotfile is read by       *)
(* load_user_config and written by update_config under the manager's       *)
(* mutex; both are taken to succeed.  A call reads the config first and     *)
(* decides (and persists) afterwards, so calls of several callers           *)
(* interleave between the two.                                             *)
(***************************************************************************)
TrustCallers == {"t1", "t2"}
TrustLevels == {"ToolsPolicy", "FullAuto"}

\* the workspaces callers pass, which of them exist, and what
\* Path::canonicalize resolves an existing one to
WorkspacePaths == {"/w1", "/w1/.", "/gone"}
ExistingPaths == {"/w1", "/w1/."}
Canonical(workspace) == IF workspace = "/w1/." THEN "/w1" ELSE workspace

\* canonicalize_workspace: the canonical path, or the path as given when
\* canonicalization fails
canonicalize_workspace(workspace) ==
    IF workspace \in ExistingPaths THEN Canonical(workspace) ELSE workspace

WorkspaceKeys == {canonicalize_workspace(w) : w \in WorkspacePaths}

\* the seconds since the epoch that SystemTime::now can give
MaxTime == 2
Timestamps == 1..MaxTime

NoRecord == [level |-> "Absent", trusted_at |-> 0]

\* config.workspace_trust.entries.get(key).map(|record| record.level)
CurrentLevel(config, workspace_key) == config[workspace_key].level

\* persist_trust_decision: the entries after update_config's insert
persist_trust_decision(entries, workspace_key, level, timestamp) ==
    [entries EXCEPT ![workspace_key] = [level |-> level, trusted_at |-> timestamp]]

NoTrustCall == [op |-> "none", key |-> "none", desired |-> "none", full_auto |-> FALSE]
NoTrustResult == [kind |-> "none", level |-> "none", previous |-> "none"]

Trusted(level) == [kind |-> "Trusted", level |-> level, previous |-> "none"]
AlreadyMatches(level) == [kind |-> "AlreadyMatches", level |-> level, previous |-> "none"]
Upgraded(previous, new) == [kind |-> "Upgraded", level |-> new, previous |-> previous]
SkippedDowngrade(level) == [kind |-> "SkippedDowngrade", level |-> level, previous |-> "none"]

\* ensure_workspace_trust after the load, with the check of full_auto_requested
\* a caller might expect
ensure_workspace_trust_by_request(current_level, full_auto_requested) ==
    IF current_level # "Absent"
    THEN [result |-> Trusted(current_level), persist |-> "none"]
    ELSE IF full_auto_requested
    THEN [result |-> Trusted("FullAuto"), persist |-> "FullAuto"]
    ELSE [result |-> Trusted("ToolsPolicy"), persist |-> "ToolsPolicy"]

\* ensure_workspace_trust after the load: the value returned and the level
\* persisted ("none": nothing is written)
ensure_workspace_trust(current_level, full_auto_requested) ==
    IF current_level # "Absent"
    THEN [result |-> Trusted(current_level), persist |-> "none"]
    ELSE [result |-> Trusted("FullAuto"), persist |-> "FullAuto"]

\* ensure_workspace_trust_level_silent after the load, without the
\* downgrade check
ensure_workspace_trust_level_silent_no_skip(current_level, desired_level) ==
    IF current_level # "Absent" /\ current_level = desired_level
    THEN [result |-> AlreadyMatches(current_level), persist |-> "none"]
    ELSE [result |-> Upgraded(current_level, desired_level), persist |-> desired_level]

\* ensure_workspace_trust_level_silent after the load: the value returned and
\* the level persisted ("none": nothing is written)
ensure_workspace_trust_level_silent(current_level, desired_level) ==
    IF current_level # "Absent" /\ current_level = desired_level
    THEN [result |-> AlreadyMatches(current_level), persist |-> "none"]
    ELSE IF current_level = "FullAuto" /\ desired_level = "ToolsPolicy"
    THEN [result |-> SkippedDowngrade(current_level), persist |-> "none"]
    ELSE [result |-> Upgraded(current_level, desired_level), persist |-> desired_level]

TrustInit ==
    /\ dotfile = [k \in WorkspaceKeys |-> NoRecord]
    /\ trustPc = [t \in TrustCallers |-> "idle"]
    /\ trustCall = [t \in TrustCallers |-> NoTrustCall]
    /\ trustSeen = [t \in TrustCallers |-> "none"]
    /\ trustResult = [t \in TrustCallers |-> NoTrustResult]

\* a call starts: the workspace is canonicalized and the config loaded
TrustLoad(t, op, workspace, desired, full_auto) ==
    /\ trustPc[t] = "idle"
    /\ trustPc' = [trustPc EXCEPT ![t] = "loaded"]
    /\ trustCall' = [trustCall EXCEPT ![t] =
                        [op |-> op, key |-> canonicalize_workspace(workspace),
                         desired |-> desired, full_auto |-> full_auto]]
    /\ trustSeen' = [trustSeen EXCEPT ![t] =
                        CurrentLevel(dotfile, canonicalize_workspace(workspace))]
    /\ UNCHANGED <<dotfile, trustResult>>
    /\ UNCHANGED <<cmdVars, pathVars, docVars, waVars, apVars, seekVars, ctxVars, execVars, sdkVars, jsonVars, acpVars, connVars, resVars, listVars, confVars, raceVars, ipcVars, toolVars>>

EnsureWorkspaceTrustLoad ==
    \E t \in TrustCallers, workspace \in WorkspacePaths, full_auto \in BOOLEAN :
        TrustLoad(t, "ensure_workspace_trust", workspace, "none", full_auto)

EnsureSilentLoad ==
    \E t \in TrustCallers, workspace \in WorkspacePaths, desired \in TrustLevels :
        TrustLoad(t, "ensure_workspace_trust_level_silent", workspace, desired, FALSE)

\* the rest of a call: the decision on the level read, the write under the
\* manager's mutex when one is due, and the return
TrustDecide(t, decision) ==
    /\ trustPc' = [trustPc EXCEPT ![t] = "done"]
    /\ trustResult' = [trustResult EXCEPT ![t] = decision.result]
    /\ IF decision.persist = "none"
       THEN dotfile' = dotfile
       ELSE \E timestamp \in Timestamps :
               dotfile' = persist_trust_decision(dotfile, trustCall[t].key,
                                                 decision.persist, timestamp)
    /\ UNCHANGED <<trustCall, trustSeen>>
    /\ UNCHANGED <<cmdVars, pathVars, docVars, waVars, apVars, seekVars, ctxVars, execVars, sdkVars, jsonVars, acpVars, connVars, resVars, listVars, confVars, raceVars, ipcVars, toolVars>>

EnsureWorkspaceTrustDecide ==
    \E t \in TrustCallers :
        /\ trustPc[t] = "loaded"
        /\ trustCall[t].op = "ensure_workspace_trust"
        /\ TrustDecide(t, ensure_workspace_trust(trustSeen[t], trustCall[t].full_auto))

EnsureSilentDecide ==
    \E t \in TrustCallers :
        /\ trustPc[t] = "loaded"
        /\ trustCall[t].op = "ensure_workspace_trust_level_silent"
        /\ TrustDecide(t, ensure_workspace_trust_level_silent(trustSeen[t],
                                                              trustCall[t].desired))

\* the caller takes the result
TrustReturn ==
    \E t \in TrustCallers :
        /\ trustPc[t] = "done"
        /\ trustPc' = [trustPc EXCEPT ![t] = "idle"]
        /\ trustCall' = [trustCall EXCEPT ![t] = NoTrustCall]
        /\ trustSeen' = [trustSeen EXCEPT ![t] = "none"]
        /\ trustResult' = [trustResult EXCEPT ![t] = NoTrustResult]
        /\ UNCHANGED dotfile
        /\ UNCHANGED <<cmdVars, pathVars, docVars, waVars, apVars, seekVars, ctxVars, execVars, sdkVars, jsonVars, acpVars, connVars, resVars, listVars, confVars, raceVars, ipcVars, toolVars>>

TrustNext ==
    \/ EnsureWorkspaceTrustLoad
    \/ EnsureSilentLoad
    \/ EnsureWorkspaceTrustDecide
    \/ EnsureSilentDecide
    \/ TrustReturn

\* the step in which caller t finishes a call of `op`
Finishes(t, op) ==
    /\ trustPc[t] = "loaded"
    /\ trustPc'[t] = "done"
    /\ trustCall[t].op = op

C4_NeverDowngraded ==
    [][\A k \in WorkspaceKeys :
          dotfile[k].level = "FullAuto" => dotfile'[k].level # "ToolsPolicy"]_vars

C5_WitnessRecorded ==
    \E t \in TrustCallers :
        /\ trustPc[t] = "done"
        /\ trustCall[t].op = "ensure_workspace_trust"
        /\ trustCall[t].full_auto
        /\ trustSeen[t] = "ToolsPolicy"
        /\ trustResult[t] = Trusted("ToolsPolicy")

(***************************************************************************)
(* PatchContextMatcher::seek (patch/matcher.rs) called on its own.  The    *)
(* lines are drawn from texts that tell the four comparisons apart: a line *)
(* with white space after it, one with white space before it, and a        *)
(* Unicode dash beside the ASCII one.                                      *)
(***************************************************************************)
MaxSeekLines == 3
MaxPatternLines == 2
SeekTexts == {<<"a">>, <<"a", " ">>, <<" ", "a">>, <<"-">>, <<"U+2013">>}
SeekInputs ==
    [lines : SeqsUpTo(SeekTexts, MaxSeekLines),
     pattern : SeqsUpTo(SeekTexts, MaxPatternLines),
     start : 0..MaxSeekLines,
     eof : BOOLEAN]
NoSeekInput == [lines |-> <<>>, pattern |-> <<>>, start |-> 0, eof |-> FALSE]

SeekInit ==
    /\ seekPc = "idle"
    /\ seekInput = NoSeekInput
    /\ seekResult = NoneOpt

\* matcher.seek(pattern, start, eof) on a matcher over lines
Seek ==
    /\ seekPc = "idle"
    /\ \E input \in SeekInputs :
           /\ seekInput' = input
           /\ seekResult' = seek(input.lines, input.pattern, input.start, input.eof)
    /\ seekPc' = "done"
    /\ UNCHANGED <<cmdVars, pathVars, trustVars, docVars, waVars, apVars, ctxVars, execVars, sdkVars, jsonVars, acpVars, connVars, resVars, listVars, confVars, raceVars, ipcVars, toolVars>>

\* the result is used and the matcher dropped
SeekReturn ==
    /\ seekPc = "done"
    /\ seekPc' = "idle"
    /\ seekInput' = NoSeekInput
    /\ seekResult' = NoneOpt
    /\ UNCHANGED <<cmdVars, pathVars, trustVars, docVars, waVars, apVars, ctxVars, execVars, sdkVars, jsonVars, acpVars, connVars, resVars, listVars, confVars, raceVars, ipcVars, toolVars>>

SeekNext ==
    \/ Seek
    \/ SeekReturn

\* the four relations, from the strictest to the loosest
SeekRelations == <<"exact", "trim_end", "trim", "normalise">>

\* the indices from on at which the pattern matches the lines under the
\* k-th relation
MatchSet(input, from, k) ==
    {idx \in from..(Len(input.lines) - Len(input.pattern)) :
        \A offset \in 1..Len(input.pattern) :
            Compared(input.lines[idx + offset], SeekRelations[k])
                = Compared(input.pattern[offset], SeekRelations[k])}

\* the lowest index under the strictest relation that matches anywhere from
\* from on, None if no relation matches there
FirstMatch(input, from) ==
    IF \A k \in 1..4 : MatchSet(input, from, k) = {} THEN NoneOpt
    ELSE Some(Min(MatchSet(input, from, Min({k \in 1..4 : MatchSet(input, from, k) # {}}))))

\* where seek starts for a pattern that fits the lines: at the cursor, or at
\* the last index the pattern fits at when eof is set
SearchStart(input) ==
    IF input.eof /\ Len(input.lines) >= Len(input.pattern)
    THEN Len(input.lines) - Len(input.pattern)
    ELSE input.start

MaxMessages == 4
MaxMessageTokens == 3
StubTokens == 1
AggressiveThresholdPercent == 80

Message(role, call, tokens) == [role |-> role, call |-> call, tokens |-> tokens, stub |-> FALSE]

ContextTrimConfigs ==
    [max_tokens : 3..5, preserve_recent_turns : 0..2,
     semantic_compression : BOOLEAN, per_tool_response_cap : {2}]
NoConfig ==
    [max_tokens |-> 0, preserve_recent_turns |-> 0,
     semantic_compression |-> FALSE, per_tool_response_cap |-> 0]

RECURSIVE TotalTokens(_)
TotalTokens(history) ==
    IF history = <<>> THEN 0 ELSE history[1].tokens + TotalTokens(Tail(history))

\* the sequence without its i-th element
RemoveAt(seq, i) == SubSeq(seq, 1, i - 1) \o SubSeq(seq, i + 1, Len(seq))

StartsTurn(message) == message.role \in {"user", "assistant"}

\* the index at which the last n turns start (past the end if n is 0 or
\* the history has no turn; the first turn if it has fewer than n)
RecentStart(history, n) ==
    LET starts == {i \in 1..Len(history) : StartsTurn(history[i])}
        recent == {i \in starts : Cardinality({j \in starts : j >= i}) <= n}
    IN  IF recent = {} THEN Len(history) + 1 ELSE Min(recent)

\* the messages of the last n turns
RecentTurns(history, n) == SubSeq(history, RecentStart(history, n), Len(history))

\* the system prompt of the history
SystemPrompt(history) == SelectSeq(history, LAMBDA m : m.role = "system")

\* the history holds more tokens than max_tokens
OverBudget(history, config) == TotalTokens(history) > config.max_tokens

\* trim order (1): tool responses before the recent turns are cut to
\* per_tool_response_cap
TruncateOversize(history, config, recent) ==
    [i \in 1..Len(history) |->
        IF i < recent /\ history[i].role = "tool"
              /\ history[i].tokens > config.per_tool_response_cap
        THEN [history[i] EXCEPT !.tokens = config.per_tool_response_cap]
        ELSE history[i]]

\* trim order (2): the oldest pruned tool stubs are dropped until the history
\* fits
RECURSIVE DropStubs(_, _)
DropStubs(history, config) ==
    LET stubs == {i \in 1..(RecentStart(history, config.preserve_recent_turns) - 1) :
                     history[i].role = "tool" /\ history[i].stub}
    IN  IF ~OverBudget(history, config) \/ stubs = {} THEN history
        ELSE DropStubs(RemoveAt(history, Min(stubs)), config)

\* trim order (3): with semantic compression, tool responses before the
\* recent turns are compressed to the size of a stub
SemanticCompress(history, config, recent) ==
    IF ~config.semantic_compression THEN history
    ELSE [i \in 1..Len(history) |->
             IF i < recent /\ history[i].role = "tool" /\ history[i].tokens > StubTokens
             THEN [history[i] EXCEPT !.tokens = StubTokens]
             ELSE history[i]]

\* the history without the message that starts a turn, its tool messages left
WithoutTurnAt_message_only(history, first) == RemoveAt(history, first)

\* the history without its oldest turn: the message that starts it and the
\* tool messages that follow
WithoutTurnAt(history, first) ==
    LET next == {i \in (first + 1)..Len(history) : history[i].role # "tool"}
        after == IF next = {} THEN Len(history) + 1 ELSE Min(next)
    IN  SubSeq(history, 1, first - 1) \o SubSeq(history, after, Len(history))

\* the turns dropped from the oldest on, the recent ones too
RECURSIVE DropTurns_recent_too(_, _, _)
DropTurns_recent_too(history, config, limit) ==
    LET old == {i \in 1..Len(history) : StartsTurn(history[i])}
    IN  IF TotalTokens(history) <= limit \/ old = {} THEN history
        ELSE DropTurns_recent_too(WithoutTurnAt(history, Min(old)), config, limit)

\* trim order (4) and (5): the oldest turns before the recent ones are
\* dropped, each with its tool results, until the history is within limit
RECURSIVE DropTurns(_, _, _)
DropTurns(history, config, limit) ==
    LET old == {i \in 1..(RecentStart(history, config.preserve_recent_turns) - 1) :
                   StartsTurn(history[i])}
    IN  IF TotalTokens(history) <= limit \/ old = {} THEN history
        ELSE DropTurns(WithoutTurnAt(history, Min(old)), config, limit)

\* a stage of the trim order is applied only while the history is over budget
WhileOver(history, trimmed, config) ==
    IF OverBudget(history, config) THEN trimmed ELSE history

EnforceFromCompress(history, config) ==
    WhileOver(history, DropTurns(history, config, config.max_tokens), config)

EnforceFromStubs(history, config) ==
    EnforceFromCompress(
        WhileOver(history,
                  SemanticCompress(history, config,
                                   RecentStart(history, config.preserve_recent_turns)),
                  config),
        config)

EnforceFromTruncate(history, config) ==
    EnforceFromStubs(WhileOver(history, DropStubs(history, config), config), config)

\* enforce_unified_context_window: the trim order of section 4.1, each stage
\* applied while the history is over max_tokens
enforce_unified_context_window(history, config) ==
    EnforceFromTruncate(
        WhileOver(history,
                  TruncateOversize(history, config,
                                   RecentStart(history, config.preserve_recent_turns)),
                  config),
        config)

\* prune_unified_tool_responses: tool responses older than the recent turns
\* become stubs, any other tool response is cut to per_tool_response_cap
PruneFrom(history, config, recent) ==
    [i \in 1..Len(history) |->
        IF history[i].role = "tool" /\ i < recent
        THEN [history[i] EXCEPT !.tokens = StubTokens, !.stub = TRUE]
        ELSE IF history[i].role = "tool" /\ history[i].tokens > config.per_tool_response_cap
        THEN [history[i] EXCEPT !.tokens = config.per_tool_response_cap]
        ELSE history[i]]

prune_unified_tool_responses(history, config) ==
    PruneFrom(history, config, RecentStart(history, config.preserve_recent_turns))

\* apply_aggressive_trim_unified: the oldest turns before the recent ones are
\* dropped until the history is under aggressive_threshold_ratio * max_tokens
apply_aggressive_trim_unified(history, config) ==
    DropTurns(history, config, (AggressiveThresholdPercent * config.max_tokens) \div 100)

CtxInit ==
    /\ ctxPc = "new"
    /\ ctxConfig = NoConfig
    /\ ctxHistory = <<>>
    /\ ctxBefore = <<>>
    /\ ctxLast = "none"
    /\ ctxPushed = 0

\* ContextManager::new, and the history started with the system prompt
ContextManagerNew ==
    /\ ctxPc = "new"
    /\ \E config \in ContextTrimConfigs, tokens \in 1..2 :
           /\ ctxConfig' = config
           /\ ctxHistory' = <<Message("system", 0, tokens)>>
    /\ ctxPc' = "ready"
    /\ UNCHANGED <<ctxBefore, ctxLast, ctxPushed>>
    /\ UNCHANGED <<cmdVars, pathVars, trustVars, docVars, waVars, apVars, seekVars, execVars, sdkVars, jsonVars, acpVars, connVars, resVars, listVars, confVars, raceVars, ipcVars, toolVars>>

\* the tool call still to answer: the one of the assistant message that
\* starts the last turn, 0 if there is none
PendingCall(history) ==
    LET starts == {i \in 1..Len(history) : StartsTurn(history[i])}
    IN  IF starts = {} THEN 0
        ELSE IF history[Max(starts)].role = "assistant" THEN history[Max(starts)].call
        ELSE 0

\* the messages the run loop can push next: a user message, an assistant
\* message with or without a tool call, a tool result for the pending call
NextMessages(history, id) ==
    {Message("user", 0, tokens) : tokens \in 1..2}
    \cup {Message("assistant", call, tokens) : call \in {0, id}, tokens \in 1..2}
    \cup (IF PendingCall(history) = 0 THEN {}
          ELSE {Message("tool", PendingCall(history), tokens) : tokens \in 1..MaxMessageTokens})

\* the run loop pushes a message
HistoryPush ==
    /\ ctxPc = "ready"
    /\ ctxPushed < MaxMessages
    /\ \E message \in NextMessages(ctxHistory, ctxPushed + 1) :
           ctxHistory' = Append(ctxHistory, message)
    /\ ctxBefore' = ctxHistory
    /\ ctxLast' = "push"
    /\ ctxPushed' = ctxPushed + 1
    /\ UNCHANGED <<ctxPc, ctxConfig>>
    /\ UNCHANGED <<cmdVars, pathVars, trustVars, docVars, waVars, apVars, seekVars, execVars, sdkVars, jsonVars, acpVars, connVars, resVars, listVars, confVars, raceVars, ipcVars, toolVars>>

\* a call on the history: what it leaves
HistoryCall(name, history) ==
    /\ ctxPc = "ready"
    /\ ctxHistory' = history
    /\ ctxBefore' = ctxHistory
    /\ ctxLast' = name
    /\ UNCHANGED <<ctxPc, ctxConfig, ctxPushed>>
    /\ UNCHANGED <<cmdVars, pathVars, trustVars, docVars, waVars, apVars, seekVars, execVars, sdkVars, jsonVars, acpVars, connVars, resVars, listVars, confVars, raceVars, ipcVars, toolVars>>

\* ContextManager::prune_tool_responses
PruneToolResponses ==
    HistoryCall("prune_tool_responses", prune_unified_tool_responses(ctxHistory, ctxConfig))

\* enforce_context_window handing the history to the pruning instead
EnforceContextWindow_prunes ==
    HistoryCall("enforce_context_window", prune_unified_tool_responses(ctxHistory, ctxConfig))

\* ContextManager::enforce_context_window
EnforceContextWindow ==
    HistoryCall("enforce_context_window", enforce_unified_context_window(ctxHistory, ctxConfig))

\* ContextManager::aggressive_trim
AggressiveTrim ==
    HistoryCall("aggressive_trim", apply_aggressive_trim_unified(ctxHistory, ctxConfig))

CtxNext ==
    \/ ContextManagerNew
    \/ HistoryPush
    \/ PruneToolResponses
    \/ EnforceContextWindow
    \/ AggressiveTrim

\* the messages enforce_context_window may not touch
Protected(history) ==
    SystemPrompt(history) \o RecentTurns(history, ctxConfig.preserve_recent_turns)

ToolCallsLinked(history) ==
    \A i \in 1..Len(history) :
        history[i].role = "tool" =>
            \E j \in 1..(i - 1) :
                history[j].role = "assistant" /\ history[j].call = history[i].call

\* the role and tool call of each message, which no call changes
Outline(history) ==
    [i \in 1..Len(history) |-> <<history[i].role, history[i].call>>]

\* part can be had from whole by leaving elements out
RECURSIVE IsSubsequence(_, _)
IsSubsequence(part, whole) ==
    IF part = <<>> THEN TRUE
    ELSE IF whole = <<>> THEN FALSE
    ELSE IF part[1] = whole[1] THEN IsSubsequence(Tail(part), Tail(whole))
    ELSE IsSubsequence(part, Tail(whole))

\* C16: after any sequence of prune_tool_responses, enforce_context_window
\* and aggressive_trim calls every tool message still in the history has its
\* assistant message earlier in the history, and the messages a call leaves
\* are in the order they had before it.
C16_ToolLinkageKept ==
    /\ ToolCallsLinked(ctxHistory)
    /\ ctxLast \in {"prune_tool_responses", "enforce_context_window", "aggressive_trim"}
           => IsSubsequence(Outline(ctxHistory), Outline(ctxBefore))

\* aggressive_trim drops a turn and leaves a later tool message with its
\* assistant message
C16_Witness ==
    /\ ctxLast = "aggressive_trim"
    /\ Len(ctxHistory) < Len(ctxBefore)
    /\ \E i \in 1..Len(ctxBefore) : ctxBefore[i].role = "tool" /\ i < RecentStart(ctxBefore, ctxConfig.preserve_recent_turns)
    /\ \E i \in 1..Len(ctxHistory) : ctxHistory[i].role = "tool"

(***************************************************************************)
(* CodeExecutor::execute, the interpreter child and the ToolIpcHandler     *)
(* (vtcode-core/src/exec/code_executor.rs, sdk_ipc.rs).                    *)
(***************************************************************************)

\* Most ToolRequests one child writes
MaxRequests == 2

RequestIds == 1..MaxRequests

\* No request.json or response.json
NoFile == 0

ExecInit ==
    /\ execPc = "new"
    /\ execEnforceable = TRUE
    /\ execInterpreter = TRUE
    /\ execScript = FALSE
    /\ execWrote = FALSE
    /\ execSpawned = FALSE
    /\ execResult = "none"
    /\ execRequest = NoFile
    /\ execResponse = NoFile
    /\ childPc = "none"
    /\ childWritten = {}
    /\ childRaised = FALSE
    /\ ipcLast = NoFile
    /\ ipcUsed = FALSE

\* CodeExecutor::new: the profile is stored, nothing is checked
CodeExecutorNew ==
    /\ execPc = "new"
    /\ execPc' = "idle"
    /\ execEnforceable' \in BOOLEAN
    /\ execInterpreter' \in BOOLEAN
    /\ UNCHANGED <<execScript, execWrote, execSpawned, execResult, execRequest,
                   execResponse, childPc, childWritten, childRaised, ipcLast, ipcUsed>>
    /\ UNCHANGED <<cmdVars, pathVars, trustVars, docVars, waVars, apVars, seekVars, ctxVars, sdkVars, jsonVars, acpVars, connVars, resVars, listVars, confVars, raceVars, ipcVars, toolVars>>

\* A return of execute
ExecReturn(result) ==
    /\ execPc' = "returned"
    /\ execResult' = result

\* execute, up to the SDK and the complete code: generate_sdk fails when
\* list_mcp_tools does
ExecuteGenerateSdk ==
    /\ execPc = "idle"
    /\ \/ ExecReturn("failed to generate SDK")
       \/ /\ execPc' = "prepared"
          /\ UNCHANGED execResult
    /\ UNCHANGED <<execEnforceable, execInterpreter, execScript, execWrote, execSpawned,
                   execRequest, execResponse, childPc, childWritten, childRaised,
                   ipcLast, ipcUsed>>
    /\ UNCHANGED <<cmdVars, pathVars, trustVars, docVars, waVars, apVars, seekVars, ctxVars, sdkVars, jsonVars, acpVars, connVars, resVars, listVars, confVars, raceVars, ipcVars, toolVars>>

\* execute: create_dir_all(.vtcode) and write(code_file, complete_code)
ExecuteWriteScript ==
    /\ execPc = "prepared"
    /\ \/ /\ ExecReturn("failed to create .vtcode directory")
          /\ UNCHANGED <<execScript, execWrote>>
       \/ /\ ExecReturn("failed to write code file")
          /\ UNCHANGED <<execScript, execWrote>>
       \/ /\ execPc' = "scripted"
          /\ execScript' = TRUE
          /\ execWrote' = TRUE
          /\ UNCHANGED execResult
    /\ UNCHANGED <<execEnforceable, execInterpreter, execSpawned, execRequest,
                   execResponse, childPc, childWritten, childRaised, ipcLast, ipcUsed>>
    /\ UNCHANGED <<cmdVars, pathVars, trustVars, docVars, waVars, apVars, seekVars, ctxVars, sdkVars, jsonVars, acpVars, connVars, resVars, listVars, confVars, raceVars, ipcVars, toolVars>>

\* AsyncProcessRunner::run starting the interpreter
RunSpawn ==
    IF execInterpreter
    THEN /\ execPc' = "running"
         /\ execSpawned' = TRUE
         /\ childPc' = "running"
         /\ UNCHANGED execResult
    ELSE /\ ExecReturn("failed to execute code")
         /\ UNCHANGED <<execSpawned, childPc>>

\* execute: the options are built from the language, the workspace and the
\* config, and the interpreter is run; self.sandbox_profile is not read
ExecuteSpawn ==
    /\ execPc = "scripted"
    /\ RunSpawn
    /\ UNCHANGED <<execEnforceable, execInterpreter, execScript, execWrote, execRequest,
                   execResponse, childWritten, childRaised, ipcLast, ipcUsed>>
    /\ UNCHANGED <<cmdVars, pathVars, trustVars, docVars, waVars, apVars, seekVars, ctxVars, sdkVars, jsonVars, acpVars, connVars, resVars, listVars, confVars, raceVars, ipcVars, toolVars>>

\* The child calls a wrapper of the generated SDK: _call_tool raises, and
\* the snippet either handles the exception or ends with it
ChildCallTool ==
    /\ childPc = "running"
    /\ ~childRaised
    /\ childRaised' = TRUE
    /\ childPc' \in {"running", "exited"}
    /\ UNCHANGED <<execPc, execEnforceable, execInterpreter, execScript, execWrote,
                   execSpawned, execResult, execRequest, execResponse, childWritten,
                   ipcLast, ipcUsed>>
    /\ UNCHANGED <<cmdVars, pathVars, trustVars, docVars, waVars, apVars, seekVars, ctxVars, sdkVars, jsonVars, acpVars, connVars, resVars, listVars, confVars, raceVars, ipcVars, toolVars>>

\* The snippet writes a ToolRequest with a fresh id to .vtcode/request.json
ChildWriteRequest ==
    /\ childPc = "running"
    /\ Cardinality(childWritten) < MaxRequests
    /\ \E id \in {Cardinality(childWritten) + 1} :
           /\ execRequest' = id
           /\ childWritten' = childWritten \cup {id}
    /\ UNCHANGED <<execPc, execEnforceable, execInterpreter, execScript, execWrote,
                   execSpawned, execResult, execResponse, childPc, childRaised,
                   ipcLast, ipcUsed>>
    /\ UNCHANGED <<cmdVars, pathVars, trustVars, docVars, waVars, apVars, seekVars, ctxVars, sdkVars, jsonVars, acpVars, connVars, resVars, listVars, confVars, raceVars, ipcVars, toolVars>>

\* The snippet ends
ChildExit ==
    /\ childPc = "running"
    /\ childPc' = "exited"
    /\ UNCHANGED <<execPc, execEnforceable, execInterpreter, execScript, execWrote,
                   execSpawned, execResult, execRequest, execResponse, childWritten,
                   childRaised, ipcLast, ipcUsed>>
    /\ UNCHANGED <<cmdVars, pathVars, trustVars, docVars, waVars, apVars, seekVars, ctxVars, sdkVars, jsonVars, acpVars, connVars, resVars, listVars, confVars, raceVars, ipcVars, toolVars>>

\* AsyncProcessRunner::run past options.timeout: the child is killed, and
\* the run reports either what it captured or an error
RunTimeout ==
    /\ execPc = "running"
    /\ childPc = "running"
    /\ childPc' = "killed"
    /\ \/ UNCHANGED <<execPc, execResult>>
       \/ ExecReturn("failed to execute code")
    /\ UNCHANGED <<execEnforceable, execInterpreter, execScript, execWrote, execSpawned,
                   execRequest, execResponse, childWritten, childRaised, ipcLast, ipcUsed>>
    /\ UNCHANGED <<cmdVars, pathVars, trustVars, docVars, waVars, apVars, seekVars, ctxVars, sdkVars, jsonVars, acpVars, connVars, resVars, listVars, confVars, raceVars, ipcVars, toolVars>>

\* execute after the run: the output is parsed (extract_json_result has no
\* failing path), the temp script removed and the result returned
ExecuteFinish ==
    /\ execPc = "running"
    /\ childPc \in {"exited", "killed"}
    /\ execScript' = FALSE
    /\ ExecReturn("Ok")
    /\ UNCHANGED <<execEnforceable, execInterpreter, execWrote, execSpawned, execRequest,
                   execResponse, childPc, childWritten, childRaised, ipcLast, ipcUsed>>
    /\ UNCHANGED <<cmdVars, pathVars, trustVars, docVars, waVars, apVars, seekVars, ctxVars, sdkVars, jsonVars, acpVars, connVars, resVars, listVars, confVars, raceVars, ipcVars, toolVars>>

\* ToolIpcHandler::read_request: None without a request.json, else the
\* request, whose file is removed unless remove_file fails
IpcReadRequest ==
    /\ execPc # "new"
    /\ ipcLast' = execRequest
    /\ \E removed \in BOOLEAN : execRequest' = IF removed THEN NoFile ELSE execRequest
    /\ ipcUsed' = (ipcUsed \/ (execRequest # NoFile /\ childPc = "running"))
    /\ UNCHANGED <<execPc, execEnforceable, execInterpreter, execScript, execWrote,
                   execSpawned, execResult, execResponse, childPc, childWritten,
                   childRaised>>
    /\ UNCHANGED <<cmdVars, pathVars, trustVars, docVars, waVars, apVars, seekVars, ctxVars, sdkVars, jsonVars, acpVars, connVars, resVars, listVars, confVars, raceVars, ipcVars, toolVars>>

\* ToolIpcHandler::write_response(response): response.json is written
IpcWriteResponse ==
    /\ execPc # "new"
    /\ \E id \in RequestIds :
           /\ execResponse # id
           /\ execResponse' = id
    /\ ipcUsed' = (ipcUsed \/ childPc = "running")
    /\ UNCHANGED <<execPc, execEnforceable, execInterpreter, execScript, execWrote,
                   execSpawned, execResult, execRequest, childPc, childWritten,
                   childRaised, ipcLast>>
    /\ UNCHANGED <<cmdVars, pathVars, trustVars, docVars, waVars, apVars, seekVars, ctxVars, sdkVars, jsonVars, acpVars, connVars, resVars, listVars, confVars, raceVars, ipcVars, toolVars>>

\* The steps of execute and of the run it awaits
ExecuteNext ==
    \/ ExecuteGenerateSdk
    \/ ExecuteWriteScript
    \/ ExecuteSpawn
    \/ RunTimeout
    \/ ExecuteFinish

\* The steps of the interpreter child
ChildNext ==
    \/ ChildCallTool
    \/ ChildWriteRequest
    \/ ChildExit

ExecNext ==
    \/ CodeExecutorNew
    \/ ExecuteNext
    \/ ChildNext
    \/ IpcReadRequest
    \/ IpcWriteResponse

\* C17: execute does not start the interpreter when its sandbox profile
\* cannot be enforced: no child is spawned and the call returns an error.
C17_RefusesUnenforceableProfile ==
    ~execEnforceable =>
        /\ ~execSpawned
        /\ execPc = "returned" => execResult # "Ok"

\* C18: every ToolRequest the child writes to .vtcode/request.json is
\* eventually answered by a ToolResponse with the same id in response.json.
C18_RequestAnswered ==
    \A id \in RequestIds : (id \in childWritten) ~> (execResponse = id)

\* C19: when an execution during which the handler moved a request or a
\* response returns, neither request.json nor response.json is left in
\* <workspace>/.vtcode/.
C19_IpcFilesRemoved ==
    [][(execPc # "returned" /\ execPc' = "returned" /\ ipcUsed')
           => (execRequest' = NoFile /\ execResponse' = NoFile)]_vars

\* C20: whenever execute has returned after writing its temp script, with a
\* result or with an error, <workspace>/.vtcode/code_temp is gone.
C20_TempScriptRemoved ==
    (execPc = "returned" /\ execWrote) => ~execScript

(***************************************************************************)
(* CodeExecutor::generate_sdk (vtcode-core/src/exec/code_executor.rs).     *)
(***************************************************************************)

\* Longest tool name and most tools registered
MaxToolNameLen == 2
MaxTools == 2

ToolNameChars == {"a", "_", "-", "."}

ToolNames == UNION {[1..n -> ToolNameChars] : n \in 1..MaxToolNameLen}

\* Tool lists of the registry: no name twice
ToolLists ==
    {tools \in UNION {[1..n -> ToolNames] : n \in 0..MaxTools} :
        \A i, j \in 1..Len(tools) : tools[i] = tools[j] => i = j}

\* sanitize_function_name
sanitize_function_name(name) ==
    [i \in 1..Len(name) |-> IF IsAsciiAlphanumeric(name[i]) \/ name[i] = "_"
                            THEN name[i]
                            ELSE "_"]

\* The wrappers pushed to the SDK, one for each tool in order
Wrappers(tools) ==
    [i \in 1..Len(tools) |-> [function |-> sanitize_function_name(tools[i]),
                              tool |-> tools[i]]]

\* generate_python_sdk / generate_javascript_sdk after list_mcp_tools
generate_sdk(tools) == [error |-> None, wrappers |-> Wrappers(tools)]

NoSdk == [error |-> "none", wrappers |-> <<>>]

SdkInit ==
    /\ sdkPc = "idle"
    /\ sdkTools = <<>>
    /\ sdkResult = NoSdk

\* generate_sdk is called with some tools registered
GenerateSdk ==
    /\ sdkPc = "idle"
    /\ \E tools \in ToolLists : sdkTools' = tools
    /\ sdkPc' = "called"
    /\ UNCHANGED sdkResult
    /\ UNCHANGED <<cmdVars, pathVars, trustVars, docVars, waVars, apVars, seekVars, ctxVars, execVars, jsonVars, acpVars, connVars, resVars, listVars, confVars, raceVars, ipcVars, toolVars>>

\* generate_sdk returns: the error of list_mcp_tools, or the SDK
GenerateSdkReturn ==
    /\ sdkPc = "called"
    /\ \/ sdkResult' = [error |-> "failed to list MCP tools", wrappers |-> <<>>]
       \/ sdkResult' = generate_sdk(sdkTools)
    /\ sdkPc' = "returned"
    /\ UNCHANGED sdkTools
    /\ UNCHANGED <<cmdVars, pathVars, trustVars, docVars, waVars, apVars, seekVars, ctxVars, execVars, jsonVars, acpVars, connVars, resVars, listVars, confVars, raceVars, ipcVars, toolVars>>

SdkNext ==
    \/ GenerateSdk
    \/ GenerateSdkReturn

\* Two tools of the list sanitize to the same function name
Collides(tools) ==
    \E i, j \in 1..Len(tools) :
        i # j /\ sanitize_function_name(tools[i]) = sanitize_function_name(tools[j])

\* C21: when two registered tool names sanitize to the same wrapper function
\* name, generate_sdk reports an error, and no SDK it returns holds two
\* wrappers with the same function name.
C21_CollisionsReported ==
    sdkPc = "returned" =>
        /\ Collides(sdkTools) => sdkResult.error # None
        /\ \A i, j \in 1..Len(sdkResult.wrappers) :
               sdkResult.wrappers[i].function = sdkResult.wrappers[j].function => i = j

(***************************************************************************)
(* The epilogue of the complete code and extract_json_result               *)
(* (vtcode-core/src/exec/code_executor.rs).  Stdout is a sequence of       *)
(* pieces: each marker, each JSON document and each other run of text is   *)
(* one piece.                                                              *)
(***************************************************************************)

\* Most pieces a snippet prints
MaxOutputLen == 3

start_marker == "__JSON_RESULT__"
end_marker == "__END_JSON__"

\* JSON documents a result serializes to: two objects, and the string
\* whose text is the end marker
JsonObjects == {"{\"r\": 1}", "{\"r\": 2}"}
JsonTexts == {<<o>> : o \in JsonObjects} \cup {<<"\"", end_marker, "\"">>}

OutputPieces == {start_marker, end_marker, "{\"r\": 1}", "text", "\n"}

SnippetOutputs == UNION {[1..n -> OutputPieces] : n \in 0..MaxOutputLen}

\* What the epilogue of prepare_python_code / prepare_javascript_code prints
Epilogue(assigned) ==
    IF IsSome(assigned)
    THEN <<start_marker, "\n">> \o Unwrap(assigned) \o <<"\n", end_marker, "\n">>
    ELSE <<>>

\* str::find: offset (from 0) of the first occurrence, if any
Find(s, piece) ==
    IF \E i \in 1..Len(s) : s[i] = piece
    THEN Some(Min({i \in 1..Len(s) : s[i] = piece}) - 1)
    ELSE NoneOpt

\* serde_json::from_str::<Value>
FromStr(json_str) == IF json_str \in JsonTexts THEN Some(json_str) ELSE NoneOpt

\* extract_json_result from the end marker on: parse what lies between
ExtractBetween(stdout, start, found) ==
    IF IsSome(found)
    THEN FromStr(Trim(SubSeq(stdout, start + 1, start + Unwrap(found))))
    ELSE NoneOpt

\* extract_json_result from the start marker on
ExtractFrom(stdout, start) ==
    ExtractBetween(stdout, start, Find(SubSeq(stdout, start + 1, Len(stdout)), end_marker))

\* extract_json_result: Ok(json_result) on every path
extract_json_result(stdout) ==
    IF IsSome(Find(stdout, start_marker))
    THEN ExtractFrom(stdout, Unwrap(Find(stdout, start_marker)) + 1)
    ELSE NoneOpt

NoJson == <<"none">>

JsonInit ==
    /\ jsonPc = "idle"
    /\ jsonSnippet = <<>>
    /\ jsonAssigned = NoneOpt
    /\ jsonResult = NoJson

\* The child has run: the snippet printed something and assigned result or
\* not, and execute parses the captured stdout
ExtractJsonResult ==
    /\ jsonPc = "idle"
    /\ \E printed \in SnippetOutputs, assigned \in {NoneOpt} \cup {Some(t) : t \in JsonTexts} :
           /\ jsonSnippet' = printed
           /\ jsonAssigned' = assigned
    /\ jsonPc' = "called"
    /\ UNCHANGED jsonResult
    /\ UNCHANGED <<cmdVars, pathVars, trustVars, docVars, waVars, apVars, seekVars, ctxVars, execVars, sdkVars, acpVars, connVars, resVars, listVars, confVars, raceVars, ipcVars, toolVars>>

ExtractJsonResultReturn ==
    /\ jsonPc = "called"
    /\ jsonResult' = extract_json_result(jsonSnippet \o Epilogue(jsonAssigned))
    /\ jsonPc' = "returned"
    /\ UNCHANGED <<jsonSnippet, jsonAssigned>>
    /\ UNCHANGED <<cmdVars, pathVars, trustVars, docVars, waVars, apVars, seekVars, ctxVars, execVars, sdkVars, acpVars, connVars, resVars, listVars, confVars, raceVars, ipcVars, toolVars>>

JsonNext ==
    \/ ExtractJsonResult
    \/ ExtractJsonResultReturn

\* C22: json_result is the value the snippet assigned to result, whatever
\* the snippet itself printed before the epilogue, and it is absent when the
\* snippet assigned none.
C22_JsonResultIsAssigned ==
    jsonPc = "returned" => jsonResult = jsonAssigned

(***************************************************************************)
(* The agent registry and the ACP client                                   *)
(* (vtcode-acp-client/src/discovery.rs, client.rs, messages.rs).           *)
(***************************************************************************)

\* Latest timestamp and most client calls
MaxClock == 2
MaxCalls == 1

AgentIds == {"a1", "a2"}
Capabilities == {"c1", "c2"}
CapabilityLists == {{}, {"c1"}, {"c1", "c2"}}

\* AgentInfo
AgentInfo(id, capabilities, online, last_seen) ==
    [id |-> id, base_url |-> <<"http://", id>>, capabilities |-> capabilities,
     online |-> online, last_seen |-> last_seen]

\* The agents a caller registers
NewAgents ==
    {AgentInfo(id, capabilities, online, NoneOpt) :
        id \in AgentIds, capabilities \in CapabilityLists, online \in BOOLEAN}

\* An insert that keeps the value a key already has
MapInsert_keep_first(map, key, value) ==
    [k \in DOMAIN map \cup {key} |-> IF k \in DOMAIN map THEN map[k] ELSE value]

\* HashMap::insert
MapInsert(map, key, value) ==
    [k \in DOMAIN map \cup {key} |-> IF k = key THEN value ELSE map[k]]

\* HashMap::remove
MapRemove(map, key) == [k \in DOMAIN map \ {key} |-> map[k]]

\* An empty HashMap
EmptyMap == [k \in {} |-> k]

\* AgentRegistry::find
find(agents, agent_id) ==
    IF agent_id \in DOMAIN agents
    THEN [kind |-> "Ok", value |-> agents[agent_id]]
    ELSE [kind |-> "AgentNotFound", value |-> agent_id]

\* AgentRegistry::find_by_capability without the online filter
find_by_capability_any(agents, capability) ==
    {agents[k] : k \in {k \in DOMAIN agents : capability \in agents[k].capabilities}}

\* AgentRegistry::find_by_capability
find_by_capability(agents, capability) ==
    {agents[k] : k \in {k \in DOMAIN agents :
                           agents[k].online /\ capability \in agents[k].capabilities}}

\* AgentRegistry::list_all
list_all(agents) == {agents[k] : k \in DOMAIN agents}

\* AgentRegistry::list_online
list_online(agents) == {agents[k] : k \in {k \in DOMAIN agents : agents[k].online}}

\* AgentRegistry::count
count(agents) == Cardinality(DOMAIN agents)

\* AgentRegistry::update_status on a registered agent
WithStatus(agents, agent_id, online, now) ==
    [agents EXCEPT ![agent_id].online = online, ![agent_id].last_seen = Some(now)]

\* update_status that registers an agent it does not find
update_status_upsert(agents, agent_id, online, now) ==
    IF agent_id \in DOMAIN agents
    THEN WithStatus(agents, agent_id, online, now)
    ELSE MapInsert(agents, agent_id, AgentInfo(agent_id, {}, online, Some(now)))

\* AgentRegistry::update_status: the agents after it; an id that is not
\* registered gives AgentNotFound and changes nothing
update_status(agents, agent_id, online, now) ==
    IF agent_id \in DOMAIN agents
    THEN WithStatus(agents, agent_id, online, now)
    ELSE agents

\* A registry operation: its name, the id it is about, whether that id was
\* registered before it, and the agent it was given
RegistryOp(op, agent_id, present, agent) ==
    [op |-> op, id |-> agent_id, present |-> present, agent |-> agent]

NoOp == RegistryOp("none", "none", FALSE, NoneOpt)

NoCall == [op |-> "none", target |-> "none", pc |-> "none", found |-> NoneOpt,
           message |-> NoneOpt, outcome |-> NoneOpt, result |-> [kind |-> "none"]]

AcpInit ==
    /\ acpRegistry = EmptyMap
    /\ acpNow = 0
    /\ acpCall = NoCall
    /\ acpPosts = <<>>
    /\ acpNextId = 0
    /\ acpLog = NoOp

\* AgentRegistry::register
Register(agent) ==
    /\ acpRegistry' = MapInsert(acpRegistry, agent.id, agent)
    /\ acpLog' = RegistryOp("register", agent.id, agent.id \in DOMAIN acpRegistry, Some(agent))
    /\ UNCHANGED <<acpNow, acpCall, acpPosts, acpNextId>>
    /\ UNCHANGED <<cmdVars, pathVars, trustVars, docVars, waVars, apVars, seekVars, ctxVars, execVars, sdkVars, jsonVars, connVars, resVars, listVars, confVars, raceVars, ipcVars, toolVars>>

\* AgentRegistry::unregister
Unregister(agent_id) ==
    /\ acpRegistry' = MapRemove(acpRegistry, agent_id)
    /\ acpLog' = RegistryOp("unregister", agent_id, agent_id \in DOMAIN acpRegistry, NoneOpt)
    /\ UNCHANGED <<acpNow, acpCall, acpPosts, acpNextId>>
    /\ UNCHANGED <<cmdVars, pathVars, trustVars, docVars, waVars, apVars, seekVars, ctxVars, execVars, sdkVars, jsonVars, connVars, resVars, listVars, confVars, raceVars, ipcVars, toolVars>>

\* AgentRegistry::update_status; the clock has moved on since the last one
UpdateStatus(agent_id, online) ==
    /\ acpNow < MaxClock
    /\ acpNow' = acpNow + 1
    /\ acpRegistry' = update_status(acpRegistry, agent_id, online, acpNow + 1)
    /\ acpLog' = RegistryOp("update_status", agent_id, agent_id \in DOMAIN acpRegistry, NoneOpt)
    /\ UNCHANGED <<acpCall, acpPosts, acpNextId>>
    /\ UNCHANGED <<cmdVars, pathVars, trustVars, docVars, waVars, apVars, seekVars, ctxVars, execVars, sdkVars, jsonVars, connVars, resVars, listVars, confVars, raceVars, ipcVars, toolVars>>

\* AgentRegistry::clear
Clear ==
    /\ acpRegistry # EmptyMap
    /\ acpRegistry' = EmptyMap
    /\ acpLog' = RegistryOp("clear", "none", FALSE, NoneOpt)
    /\ UNCHANGED <<acpNow, acpCall, acpPosts, acpNextId>>
    /\ UNCHANGED <<cmdVars, pathVars, trustVars, docVars, waVars, apVars, seekVars, ctxVars, execVars, sdkVars, jsonVars, connVars, resVars, listVars, confVars, raceVars, ipcVars, toolVars>>

RegisterSome == \E agent \in NewAgents : Register(agent)
UnregisterSome == \E agent_id \in AgentIds : Unregister(agent_id)
UpdateStatusSome == \E agent_id \in AgentIds, online \in BOOLEAN : UpdateStatus(agent_id, online)

RegistryNext ==
    \/ RegisterSome
    \/ UnregisterSome
    \/ UpdateStatusSome
    \/ Clear

\* HTTP statuses a peer answers with
StatusCodes == {200, 201, 404, 408, 500}

\* Response bodies: empty, a JSON document, text that is no JSON, and a body
\* that cannot be read
Bodies == {"", "{\"ok\": true}", "slow", "unreadable"}

\* What becomes of a request: no response at all, or a status and a body
HttpOutcomes ==
    {[kind |-> "failed", status |-> 0, body |-> ""]}
        \cup {[kind |-> "response", status |-> status, body |-> body] :
                 status \in {200}, body \in Bodies}
        \cup {[kind |-> "response", status |-> status, body |-> body] :
                 status \in StatusCodes, body \in {"", "slow"}}

\* What becomes of GET /health, whose body is not read
HealthOutcomes == {outcome \in HttpOutcomes : outcome.body = ""}

\* StatusCode::is_success
is_success(status) == status \in 200..299

Ok(value) == [kind |-> "Ok", value |-> value]
Err(kind, value) == [kind |-> kind, value |-> value]

\* send_request on StatusCode::OK | StatusCode::ACCEPTED
DecodeBody(body) ==
    CASE body = "unreadable" -> Err("NetworkError", body)
      [] body = "" -> Ok("null")
      [] body = "{\"ok\": true}" -> Ok(body)
      [] OTHER -> Err("SerializationError", <<"Failed to parse response", body>>)

\* AcpClient::send_request, given what became of the POST
send_request(base_url, outcome) ==
    CASE outcome.kind = "failed" -> Err("NetworkError", "send")
      [] outcome.kind = "response" /\ outcome.status \in {200, 202} -> DecodeBody(outcome.body)
      [] outcome.kind = "response" /\ outcome.status = 408 ->
             Err("Timeout", "Request to remote agent timed out")
      [] outcome.kind = "response" /\ outcome.status = 404 ->
             Err("AgentNotFound", "Remote agent endpoint not found")
      [] OTHER ->
             Err("RemoteError", [agent_id |-> base_url, code |-> Some(outcome.status)])

\* AcpMessage::request with a fresh id; call_async clears the sync flag
AcpMessage(id, recipient, sync) == [id |-> id, recipient |-> recipient, sync |-> sync]

\* A client call that has passed registry.find
Call(op, target, found, message) ==
    [op |-> op, target |-> target, pc |-> "send", found |-> found,
     message |-> message, outcome |-> NoneOpt, result |-> [kind |-> "none"]]

\* A client call that has returned
Returned(call, outcome, result) ==
    [call EXCEPT !.pc = "returned", !.outcome = outcome, !.result = result]

\* The agent the client calls; the registry treats every id alike
CallTargets == {"a1"}

\* The start of call_sync, call_async and ping: registry.find(remote_agent_id)
\* mapped to AgentNotFound
CallFind(op, target, messages, sync) ==
    /\ acpCall.pc \in {"none", "returned"}
    /\ IF find(acpRegistry, target).kind = "Ok"
       THEN /\ acpCall' = Call(op, target, Some(find(acpRegistry, target).value.base_url),
                               IF messages = 1
                               THEN Some(AcpMessage(acpNextId + 1, target, sync))
                               ELSE NoneOpt)
            /\ acpNextId' = acpNextId + messages
       ELSE /\ acpCall' = Returned(Call(op, target, NoneOpt, NoneOpt), NoneOpt,
                                   Err("AgentNotFound", target))
            /\ UNCHANGED acpNextId
    /\ UNCHANGED <<acpRegistry, acpNow, acpPosts, acpLog>>
    /\ UNCHANGED <<cmdVars, pathVars, trustVars, docVars, waVars, apVars, seekVars, ctxVars, execVars, sdkVars, jsonVars, connVars, resVars, listVars, confVars, raceVars, ipcVars, toolVars>>

\* AcpClient::call_sync up to the message
CallSync ==
    /\ acpNextId < MaxCalls
    /\ \E target \in CallTargets : CallFind("call_sync", target, 1, TRUE)

\* AcpClient::call_sync: send_request(...).await? and Ok(response)
CallSyncSend ==
    /\ acpCall.op = "call_sync"
    /\ acpCall.pc = "send"
    /\ \E outcome \in HttpOutcomes :
           acpCall' = Returned(acpCall, Some(outcome),
                               send_request(Unwrap(acpCall.found), outcome))
    /\ acpPosts' = Append(acpPosts, Unwrap(acpCall.message))
    /\ UNCHANGED <<acpRegistry, acpNow, acpNextId, acpLog>>
    /\ UNCHANGED <<cmdVars, pathVars, trustVars, docVars, waVars, apVars, seekVars, ctxVars, execVars, sdkVars, jsonVars, connVars, resVars, listVars, confVars, raceVars, ipcVars, toolVars>>

\* AcpClient::call_async up to the message
CallAsync ==
    /\ acpNextId < MaxCalls
    /\ \E target \in CallTargets : CallFind("call_async", target, 1, FALSE)

\* call_async returning what send_request returned
call_async_result_of_send(message, sent) ==
    IF sent.kind = "Ok" THEN Ok(message.id) ELSE sent

\* call_async: `let _ = send_request(...)` and Ok(message.id)
call_async_result(message, sent) == Ok(message.id)

\* AcpClient::call_async: the POST and the return
CallAsyncSend ==
    /\ acpCall.op = "call_async"
    /\ acpCall.pc = "send"
    /\ \E outcome \in HttpOutcomes :
           acpCall' = Returned(acpCall, Some(outcome),
                               call_async_result(Unwrap(acpCall.message),
                                   send_request(Unwrap(acpCall.found), outcome)))
    /\ acpPosts' = Append(acpPosts, Unwrap(acpCall.message))
    /\ UNCHANGED <<acpRegistry, acpNow, acpNextId, acpLog>>
    /\ UNCHANGED <<cmdVars, pathVars, trustVars, docVars, waVars, apVars, seekVars, ctxVars, execVars, sdkVars, jsonVars, connVars, resVars, listVars, confVars, raceVars, ipcVars, toolVars>>

\* AcpClient::ping up to the GET
Ping ==
    /\ acpNextId < MaxCalls
    /\ \E target \in CallTargets : CallFind("ping", target, 0, FALSE)

\* ping: the status the registry is given for an outcome of GET /health, if
\* any
PingStatus(outcome) ==
    CASE outcome.kind = "failed" -> Some(FALSE)
      [] is_success(outcome.status) -> Some(TRUE)
      [] OTHER -> NoneOpt

\* AcpClient::ping: the answer of /health, update_status(...).ok() and the
\* return
PingFinish ==
    /\ acpCall.op = "ping"
    /\ acpCall.pc = "send"
    /\ \E outcome \in HealthOutcomes :
           /\ IsSome(PingStatus(outcome)) => acpNow < MaxClock
           /\ acpCall' = Returned(acpCall, Some(outcome),
                                  Ok(outcome.kind = "response" /\ is_success(outcome.status)))
           /\ IF IsSome(PingStatus(outcome))
              THEN /\ acpNow' = acpNow + 1
                   /\ acpRegistry' = update_status(acpRegistry, acpCall.target,
                                                   Unwrap(PingStatus(outcome)), acpNow + 1)
              ELSE UNCHANGED <<acpRegistry, acpNow>>
    /\ UNCHANGED <<acpPosts, acpNextId, acpLog>>
    /\ UNCHANGED <<cmdVars, pathVars, trustVars, docVars, waVars, apVars, seekVars, ctxVars, execVars, sdkVars, jsonVars, connVars, resVars, listVars, confVars, raceVars, ipcVars, toolVars>>

ClientNext ==
    \/ CallSync
    \/ CallSyncSend
    \/ CallAsync
    \/ CallAsyncSend
    \/ Ping
    \/ PingFinish

AcpNext ==
    \/ RegistryNext
    \/ ClientNext

\* C27: for every capability c, every agent find_by_capability(c) returns is
\* returned by list_online() too, and find_by_capability(c) is exactly the
\* registered agents that are online and list c.
C27_CapabilityImpliesOnline ==
    \A c \in Capabilities :
        /\ find_by_capability(acpRegistry, c) \subseteq list_online(acpRegistry)
        /\ find_by_capability(acpRegistry, c) =
               {a \in list_all(acpRegistry) : a.online /\ c \in a.capabilities}

\* An offline agent with a capability is registered next to an online one
C27_Witness ==
    /\ \E a \in list_all(acpRegistry) : ~a.online /\ "c1" \in a.capabilities
    /\ find_by_capability(acpRegistry, "c1") # {}
    /\ find_by_capability(acpRegistry, "c2") = {}
    /\ count(acpRegistry) = 2

\* The ids find succeeds for
Registered(agents) == {id \in AgentIds : find(agents, id).kind = "Ok"}

\* find answers the same for every id but one
SameButFor(agent_id) ==
    \A id \in AgentIds \ {agent_id} : find(acpRegistry', id) = find(acpRegistry, id)

\* C28: the registry is a map keyed by agent id.  count() is the number of
\* ids find succeeds for; register makes find return the agent just given
\* under its id, unregister makes find fail for the id, clear for every id,
\* each leaving the other ids as they were; and an unregister of an absent
\* id changes nothing.
C28_RegistryIsMap ==
    [][/\ count(acpRegistry') = Cardinality(Registered(acpRegistry'))
       /\ acpLog'.op = "register" =>
              /\ find(acpRegistry', acpLog'.id) = [kind |-> "Ok", value |-> Unwrap(acpLog'.agent)]
              /\ SameButFor(acpLog'.id)
       /\ acpLog'.op = "unregister" =>
              /\ find(acpRegistry', acpLog'.id) = [kind |-> "AgentNotFound", value |-> acpLog'.id]
              /\ SameButFor(acpLog'.id)
              /\ ~acpLog'.present => acpRegistry' = acpRegistry
       /\ acpLog'.op = "clear" => Registered(acpRegistry') = {}]_vars

\* An agent has been registered again under an id that was registered, with
\* other capabilities, next to another agent
C28_Witness ==
    /\ acpLog.op = "register"
    /\ acpLog.present
    /\ acpNow = 0
    /\ count(acpRegistry) = 2
    /\ acpRegistry[acpLog.id].capabilities = {"c1", "c2"}

\* A call of the given operation has returned
HasReturned(op) == acpCall.op = op /\ acpCall.pc = "returned"

\* C23: the outcome of call_sync is decided by the peer's HTTP status: 408
\* gives Timeout("Request to remote agent timed out") whatever the body, 404
\* gives AgentNotFound, every other non-2xx status gives RemoteError with
\* that status as code, and every 2xx status gives Ok with the decoded body
\* (null for an empty one).
C23_StatusDecidesOutcome ==
    (HasReturned("call_sync") /\ IsSome(acpCall.outcome)
         /\ Unwrap(acpCall.outcome).kind = "response") =>
        CASE Unwrap(acpCall.outcome).status = 408 ->
                 acpCall.result = Err("Timeout", "Request to remote agent timed out")
          [] Unwrap(acpCall.outcome).status = 404 ->
                 acpCall.result.kind = "AgentNotFound"
          [] ~is_success(Unwrap(acpCall.outcome).status) ->
                 /\ acpCall.result.kind = "RemoteError"
                 /\ acpCall.result.value.code = Some(Unwrap(acpCall.outcome).status)
          [] Unwrap(acpCall.outcome).body = "" ->
                 acpCall.result = Ok("null")
          [] Unwrap(acpCall.outcome).body = "{\"ok\": true}" ->
                 acpCall.result = Ok("{\"ok\": true}")
          [] OTHER -> TRUE

\* C24: call_async to a registered target POSTs one message whose sync flag
\* is false and returns Ok with the id of that message, whatever becomes of
\* the POST; it returns an error only when the target is not registered.
C24_AsyncReturnsMessageId ==
    HasReturned("call_async") =>
        IF IsSome(acpCall.found)
        THEN /\ acpCall.result = Ok(Unwrap(acpCall.message).id)
             /\ Cardinality({i \in 1..Len(acpPosts) :
                                acpPosts[i].id = Unwrap(acpCall.message).id}) = 1
             /\ \A i \in 1..Len(acpPosts) :
                    acpPosts[i].id = Unwrap(acpCall.message).id =>
                        (acpPosts[i] = Unwrap(acpCall.message) /\ ~acpPosts[i].sync)
        ELSE /\ acpCall.result = Err("AgentNotFound", acpCall.target)
             /\ acpCall.message = NoneOpt
             /\ Len(acpPosts) = acpNextId

\* call_async has returned the message id although the POST got no answer
C24_Witness ==
    /\ HasReturned("call_async")
    /\ IsSome(acpCall.outcome)
    /\ Unwrap(acpCall.outcome).kind = "failed"
    /\ acpCall.result.kind = "Ok"
    /\ Len(acpPosts) = 1

\* C25: ping never fails: for every target, registered or not, and every
\* outcome of the GET, it returns a boolean.
C25_PingNeverFails ==
    HasReturned("ping") => (acpCall.result.kind = "Ok" /\ acpCall.result.value \in BOOLEAN)

\* C26: when ping(target) returns b for a registered target, the registry
\* holds online = b for it and its last_seen has just been refreshed.
C26_PingRecordsStatus ==
    [][(/\ acpCall.op = "ping"
        /\ acpCall.pc = "send"
        /\ acpCall'.pc = "returned"
        /\ acpCall.target \in DOMAIN acpRegistry') =>
           /\ acpRegistry'[acpCall.target].online = acpCall'.result.value
           /\ acpNow' > acpNow
           /\ acpRegistry'[acpCall.target].last_seen = Some(acpNow')]_vars

\* the entry without its online flag and its last_seen
Identity(agent) == [id |-> agent.id, base_url |-> agent.base_url, capabilities |-> agent.capabilities]

\* C38: the registry may change while a ping is in flight, and ping cannot
\* resurrect an agent: the step that ends a ping registers and unregisters
\* nothing, so a target unregistered (or cleared) during the ping stays
\* absent, and it changes no entry other than the online flag and the
\* last_seen of its target.
C38_PingCannotResurrect ==
    [][(/\ acpCall.op = "ping"
        /\ acpCall.pc = "send"
        /\ acpCall'.pc = "returned") =>
           /\ DOMAIN acpRegistry' = DOMAIN acpRegistry
           /\ \A id \in DOMAIN acpRegistry :
                  /\ Identity(acpRegistry'[id]) = Identity(acpRegistry[id])
                  /\ id # acpCall.target => acpRegistry'[id] = acpRegistry[id]]_vars

\* a ping whose GET succeeded has returned for a target that was found when
\* the ping started and is not registered now, another agent being registered
C38_Witness ==
    /\ HasReturned("ping")
    /\ IsSome(acpCall.found)
    /\ acpCall.result = Ok(TRUE)
    /\ acpCall.target \notin DOMAIN acpRegistry
    /\ acpRegistry # EmptyMap

(***************************************************************************)
(* The global ACP connection (vtcode-acp-client/src/lib.rs).               *)
(***************************************************************************)

ConnCallers == {"k1", "k2", "k3"}

\* The connection a caller holds
ConnectionOf(caller) == <<"connection", caller>>

\* OnceLock::set that replaces the value
OnceLockSet_replacing(cell, value) == [cell |-> Some(value), result |-> Ok("()")]

\* OnceLock::set: the cell after the call and the result
OnceLockSet(cell, value) ==
    IF IsSome(cell)
    THEN [cell |-> cell, result |-> Err("Err", value)]
    ELSE [cell |-> Some(value), result |-> Ok("()")]

\* OnceLock::get().cloned()
OnceLockGet(cell) == cell

ConnInit ==
    /\ ACP_CONNECTION = NoneOpt
    /\ connCall = [k \in ConnCallers |-> [pc |-> "idle", result |-> [kind |-> "none"]]]
    /\ connSeen = [k \in ConnCallers |-> [read |-> FALSE, value |-> NoneOpt]]

\* A caller enters register_acp_connection with its connection
RegisterAcpConnectionCall(k) ==
    /\ connCall[k].pc = "idle"
    /\ connCall' = [connCall EXCEPT ![k].pc = "called"]
    /\ UNCHANGED <<ACP_CONNECTION, connSeen>>
    /\ UNCHANGED <<cmdVars, pathVars, trustVars, docVars, waVars, apVars, seekVars, ctxVars, execVars, sdkVars, jsonVars, acpVars, resVars, listVars, confVars, raceVars, ipcVars, toolVars>>

\* register_acp_connection: ACP_CONNECTION.set(connection)
RegisterAcpConnection(k) ==
    /\ connCall[k].pc = "called"
    /\ ACP_CONNECTION' = OnceLockSet(ACP_CONNECTION, ConnectionOf(k)).cell
    /\ connCall' = [connCall EXCEPT
                       ![k] = [pc |-> "returned",
                               result |-> OnceLockSet(ACP_CONNECTION, ConnectionOf(k)).result]]
    /\ UNCHANGED connSeen
    /\ UNCHANGED <<cmdVars, pathVars, trustVars, docVars, waVars, apVars, seekVars, ctxVars, execVars, sdkVars, jsonVars, acpVars, resVars, listVars, confVars, raceVars, ipcVars, toolVars>>

\* acp_connection()
AcpConnection(k) ==
    /\ connSeen[k] # [read |-> TRUE, value |-> OnceLockGet(ACP_CONNECTION)]
    /\ connSeen' = [connSeen EXCEPT ![k] = [read |-> TRUE, value |-> OnceLockGet(ACP_CONNECTION)]]
    /\ UNCHANGED <<ACP_CONNECTION, connCall>>
    /\ UNCHANGED <<cmdVars, pathVars, trustVars, docVars, waVars, apVars, seekVars, ctxVars, execVars, sdkVars, jsonVars, acpVars, resVars, listVars, confVars, raceVars, ipcVars, toolVars>>

RegisterAcpConnectionCallSome == \E k \in ConnCallers : RegisterAcpConnectionCall(k)
RegisterAcpConnectionSome == \E k \in ConnCallers : RegisterAcpConnection(k)
AcpConnectionSome == \E k \in ConnCallers : AcpConnection(k)

ConnNext ==
    \/ RegisterAcpConnectionCallSome
    \/ RegisterAcpConnectionSome
    \/ AcpConnectionSome

\* The callers whose register_acp_connection returned, and those it returned
\* Ok to
ConnReturned(calls) == {k \in ConnCallers : calls[k].pc = "returned"}
ConnAccepted(calls) == {k \in ConnReturned(calls) : calls[k].result.kind = "Ok"}

\* What acp_connection() has to return: the connection of the accepted
\* caller, None before there is one
FirstConnection(calls) ==
    IF ConnAccepted(calls) = {}
    THEN NoneOpt
    ELSE Some(ConnectionOf(CHOOSE k \in ConnAccepted(calls) : TRUE))

\* C29: the global connection is set at most once.  Once any call has
\* returned exactly one has returned Ok, every other returned
\* Err with the connection it was given, and acp_connection() returns the
\* accepted connection from then on and None before.
C29_SetAtMostOnce ==
    [][/\ Cardinality(ConnAccepted(connCall')) <= 1
       /\ ConnReturned(connCall') # {} => Cardinality(ConnAccepted(connCall')) = 1
       /\ \A k \in ConnReturned(connCall') \ ConnAccepted(connCall') :
              connCall'[k].result = Err("Err", ConnectionOf(k))
       /\ ConnAccepted(connCall) # {} => FirstConnection(connCall') = FirstConnection(connCall)
       /\ \A k \in ConnCallers :
              connSeen'[k] # connSeen[k] => connSeen'[k].value = FirstConnection(connCall)]_vars

\* All three calls have returned and a caller whose call was refused has
\* read the connection
C29_Witness ==
    /\ ConnReturned(connCall) = ConnCallers
    /\ \E k \in ConnCallers \ ConnAccepted(connCall) : IsSome(connSeen[k].value)
    /\ \E k \in ConnCallers : connSeen[k].read /\ connSeen[k].value = NoneOpt

(***************************************************************************)
(* CommandResolver (vtcode-core/src/tools/command_resolver.rs).            *)
(***************************************************************************)

\* Longest command and most resolve calls
MaxResolveLen == 2
MaxResolves == 3

ResolveChars == {"a", "b", " "}

ResolveCommands == SeqsUpTo(ResolveChars, MaxResolveLen)

\* which::which: the command is found at some path of PATH, or not found
WhichOutcomes == {NoneOpt, Some("/bin"), Some("/usr/bin")}

\* str::split_whitespace
RECURSIVE split_whitespace(_)
split_whitespace(s) ==
    IF SkipWhitespace(s) = <<>>
    THEN <<>>
    ELSE <<TakeWord(SkipWhitespace(s))>>
             \o split_whitespace(SubSeq(SkipWhitespace(s),
                                        Len(TakeWord(SkipWhitespace(s))) + 1,
                                        Len(SkipWhitespace(s))))

\* base_cmd taken to be the whole command
base_cmd_whole(cmd) == cmd

\* resolve: cmd.split_whitespace().next().unwrap_or(cmd)
base_cmd(cmd) ==
    IF split_whitespace(cmd) = <<>> THEN cmd ELSE split_whitespace(cmd)[1]

\* CommandResolution
CommandResolution(command, which) ==
    [command |-> command, resolved_path |-> which, found |-> IsSome(which),
     search_paths |-> "PATH"]

\* resolve: the resolution returned and the resolver's fields after it
resolve(fields, cmd, which) ==
    IF base_cmd(cmd) \in DOMAIN fields.cache
    THEN [result |-> fields.cache[base_cmd(cmd)],
          cache |-> fields.cache,
          cache_hits |-> fields.cache_hits + 1,
          cache_misses |-> fields.cache_misses]
    ELSE [result |-> CommandResolution(base_cmd(cmd), which),
          cache |-> MapInsert(fields.cache, base_cmd(cmd),
                              CommandResolution(base_cmd(cmd), which)),
          cache_hits |-> fields.cache_hits,
          cache_misses |-> fields.cache_misses + 1]

\* cache_stats
cache_stats == <<cache_hits, cache_misses>>

NoResolve == [op |-> "none", cmd |-> <<>>, result |-> CommandResolution(<<>>, NoneOpt)]

\* CommandResolver::new
ResolverInit ==
    /\ cache = EmptyMap
    /\ cache_hits = 0
    /\ cache_misses = 0
    /\ resLast = NoResolve
    /\ resCalls = 0
    /\ resSeen = EmptyMap

\* The base command of a command: its first whitespace-separated token (the
\* command itself when it has none)
FirstToken(cmd) == IF BaseCommand(cmd) = <<>> THEN cmd ELSE BaseCommand(cmd)

\* The record of first resolutions after a resolve call
Seen(seen, cmd, result) ==
    IF FirstToken(cmd) \in DOMAIN seen THEN seen ELSE MapInsert(seen, FirstToken(cmd), result)

\* CommandResolver::resolve, applied to the fields
ResolveWith(cmd, resolved) ==
    /\ cache' = resolved.cache
    /\ cache_hits' = resolved.cache_hits
    /\ cache_misses' = resolved.cache_misses
    /\ resLast' = [op |-> "resolve", cmd |-> cmd, result |-> resolved.result]
    /\ resSeen' = Seen(resSeen, cmd, resolved.result)

\* CommandResolver::resolve
Resolve ==
    /\ resCalls < MaxResolves
    /\ resCalls' = resCalls + 1
    /\ \E cmd \in ResolveCommands, which \in WhichOutcomes :
           ResolveWith(cmd, resolve([cache |-> cache, cache_hits |-> cache_hits,
                                     cache_misses |-> cache_misses], cmd, which))
    /\ UNCHANGED <<cmdVars, pathVars, trustVars, docVars, waVars, apVars, seekVars, ctxVars, execVars, sdkVars, jsonVars, acpVars, connVars, listVars, confVars, raceVars, ipcVars, toolVars>>

\* CommandResolver::clear_cache
ClearCache ==
    /\ resLast.op # "clear_cache"
    /\ cache' = EmptyMap
    /\ resSeen' = EmptyMap
    /\ resLast' = [NoResolve EXCEPT !.op = "clear_cache"]
    /\ UNCHANGED <<cache_hits, cache_misses, resCalls>>
    /\ UNCHANGED <<cmdVars, pathVars, trustVars, docVars, waVars, apVars, seekVars, ctxVars, execVars, sdkVars, jsonVars, acpVars, connVars, listVars, confVars, raceVars, ipcVars, toolVars>>

ResolverNext ==
    \/ Resolve
    \/ ClearCache

\* C30: a resolve call is counted as a hit exactly when the same base
\* command was resolved earlier and not cleared since, and as a miss
\* otherwise; hits + misses is the number of resolve calls; a hit returns
\* the resolution stored by the earlier miss; clear_cache leaves both
\* counters as they were.
C30_HitsAndMisses ==
    [][/\ cache_stats'[1] + cache_stats'[2] = resCalls'
       /\ resCalls' # resCalls =>
              IF FirstToken(resLast'.cmd) \in DOMAIN resSeen
              THEN /\ cache_stats' = <<cache_stats[1] + 1, cache_stats[2]>>
                   /\ resLast'.result = resSeen[FirstToken(resLast'.cmd)]
              ELSE cache_stats' = <<cache_stats[1], cache_stats[2] + 1>>
       /\ resLast'.op = "clear_cache" => cache_stats' = cache_stats]_vars

\* A command was resolved again with other arguments and hit the cache,
\* after a clear_cache had made the same base command miss a second time
C30_Witness ==
    /\ resLast.op = "resolve"
    /\ resLast.cmd = <<"a", " ">>
    /\ cache_stats = <<1, 2>>
    /\ DOMAIN cache = {<<"a">>}

(***************************************************************************)
(* render_list_dir_output (src/agent/runloop/tool_output/files.rs).        *)
(***************************************************************************)

\* Largest count and total of a payload, and largest page
MaxCount == 2
MaxPage == 2

\* The pagination fields of a payload; a field may be missing
ListPayloads ==
    [count : {NoneOpt} \cup {Some(n) : n \in 0..MaxCount},
     total : {NoneOpt} \cup {Some(n) : n \in 0..(MaxCount + 1)},
     page : {NoneOpt} \cup {Some(n) : n \in 1..MaxPage},
     has_more : BOOLEAN]

\* get_u64(val, key).unwrap_or(default)
get_u64_or(field, default) == IF IsSome(field) THEN Unwrap(field) ELSE default

\* u64 division: a zero divisor panics
DivU64(a, b) == IF b = 0 THEN [panic |-> TRUE, value |-> 0] ELSE [panic |-> FALSE, value |-> a \div b]

NoSummary == [kind |-> "none", page |-> 0, pages |-> 0, count |-> 0, total |-> 0]
Panicked == [kind |-> "panic: attempt to divide by zero", page |-> 0, pages |-> 0, count |-> 0, total |-> 0]

\* "  Page {} of ~{} ({} items per page, {} total)"
PageEstimate(page, pages, item_count, total) ==
    IF pages.panic
    THEN Panicked
    ELSE [kind |-> "Page of ~", page |-> page, pages |-> pages.value, count |-> item_count, total |-> total]

\* The pagination summary of render_list_dir_output after the fields are read
Summary(item_count, total, page, has_more) ==
    IF item_count > 0 \/ total > 0
    THEN IF total > item_count
         THEN IF has_more
              THEN PageEstimate(page, DivU64(total + item_count - 1, item_count), item_count, total)
              ELSE [kind |-> "Page", page |-> page, pages |-> 0, count |-> item_count, total |-> total]
         ELSE [kind |-> "items", page |-> 0, pages |-> 0, count |-> item_count, total |-> 0]
    ELSE NoSummary

\* render_list_dir_output, as far as the pagination summary
render_list_dir_output(val) ==
    Summary(get_u64_or(val.count, 0), get_u64_or(val.total, 0), get_u64_or(val.page, 1),
            val.has_more)

NoPayload == [count |-> NoneOpt, total |-> NoneOpt, page |-> NoneOpt, has_more |-> FALSE]

ListInit ==
    /\ listPc = "idle"
    /\ listVal = NoPayload
    /\ listOut = NoSummary

\* A list_files result is handed to the renderer
RenderListDirOutput ==
    /\ listPc = "idle"
    /\ \E val \in ListPayloads : listVal' = val
    /\ listPc' = "called"
    /\ UNCHANGED listOut
    /\ UNCHANGED <<cmdVars, pathVars, trustVars, docVars, waVars, apVars, seekVars, ctxVars, execVars, sdkVars, jsonVars, acpVars, connVars, resVars, confVars, raceVars, ipcVars, toolVars>>

RenderListDirOutputReturn ==
    /\ listPc = "called"
    /\ listOut' = render_list_dir_output(listVal)
    /\ listPc' = "returned"
    /\ UNCHANGED listVal
    /\ UNCHANGED <<cmdVars, pathVars, trustVars, docVars, waVars, apVars, seekVars, ctxVars, execVars, sdkVars, jsonVars, acpVars, connVars, resVars, confVars, raceVars, ipcVars, toolVars>>

ListNext ==
    \/ RenderListDirOutput
    \/ RenderListDirOutputReturn

\* C32: rendering a payload with count = 0, whatever its total, page and
\* has_more, divides by nothing: the call does not panic and emits no
\* page-count estimate.
C32_NoDivisionByZero ==
    (listPc = "returned" /\ get_u64_or(listVal.count, 0) = 0) =>
        listOut.kind \notin {Panicked.kind, "Page of ~"}

(***************************************************************************)
(* The paths apply touches (patch/path.rs, patch/applicator.rs).           *)
(* A joined path is the sequence of its normal components below `/`.       *)
(***************************************************************************)

\* The workspace root handed to apply
Root == <<<<"w", "s">>>>

\* The paths validate_patch_path accepts
ValidatedPaths == {raw_path \in PathStrings : validate_patch_path(raw_path) = "ok"}

\* The components of root.join(raw_path) for a relative raw_path: the root's,
\* then the non-empty parts of raw_path; a `.` after the root is normalized away
Join(root, raw_path) ==
    LET parts == SplitOn(raw_path, "/")
    IN  root \o SelectSeq(parts, LAMBDA part : part # <<>> /\ part # <<".">>)

\* Path::parent: the path without its last component
PathParent(path) == IF path = <<>> THEN NoneOpt ELSE Some(Front(path))

\* temporary_path: `.{file_name}.{pid}.{timestamp}.tmp` in the parent
temporary_path(target) ==
    (IF IsSome(PathParent(target)) THEN Unwrap(PathParent(target)) ELSE <<>>)
    \o <<<<".">> \o Last(target) \o <<".", "t", "m", "p">>>>

\* The filesystem calls of write_atomic, in order, with the path of each
WriteAtomicCalls(path) ==
    (IF IsSome(PathParent(path))
     THEN <<[call |-> "create_dir_all", path |-> Unwrap(PathParent(path))]>>
     ELSE <<>>)
    \o <<[call |-> "File::create", path |-> temporary_path(path)],
         [call |-> "rename", path |-> path],
         [call |-> "remove_file", path |-> temporary_path(path)]>>

\* The filesystem calls apply issues for one operation, in order
ApplyCalls(op) ==
    CASE op.kind = "AddFile" -> WriteAtomicCalls(Join(Root, op.path))
      [] op.kind = "DeleteFile" ->
            <<[call |-> "metadata", path |-> Join(Root, op.path)],
              [call |-> "remove", path |-> Join(Root, op.path)]>>
      [] op.kind = "UpdateFile" ->
            <<[call |-> "read_to_string", path |-> Join(Root, op.path)]>>
            \o (IF IsSome(op.new_path)
                THEN WriteAtomicCalls(Join(Root, Unwrap(op.new_path)))
                     \o <<[call |-> "remove_file", path |-> Join(Root, op.path)]>>
                ELSE WriteAtomicCalls(Join(Root, op.path)))

\* The operations of a patch whose paths passed validate_patch_path
ValidatedOperations ==
    {AddFile(path, <<>>) : path \in ValidatedPaths}
    \cup {DeleteFile(path) : path \in ValidatedPaths}
    \cup {UpdateFile(path, new_path, <<>>) :
            path \in ValidatedPaths, new_path \in {NoneOpt} \cup {Some(p) : p \in {<<".">>, <<"a">>, <<"a", "/", "a">>}}}

NoOperation == DeleteFile(<<>>)

ConfInit ==
    /\ confPc = "idle"
    /\ confOp = NoOperation
    /\ confTouched = {}

\* apply reaches an operation with validated paths
ApplyValidated ==
    /\ confPc = "idle"
    /\ \E op \in ValidatedOperations : confOp' = op
    /\ confPc' = "op"
    /\ UNCHANGED confTouched
    /\ UNCHANGED <<cmdVars, pathVars, trustVars, docVars, waVars, apVars, seekVars, ctxVars, execVars, sdkVars, jsonVars, acpVars, connVars, resVars, listVars, raceVars, ipcVars, toolVars>>

\* the operation runs: its filesystem calls are issued in order until one
\* fails or all are done
ApplyOperation ==
    /\ confPc = "op"
    /\ \E calls \in {ApplyCalls(confOp)} :
         \E issued \in 1..Len(calls) :
            confTouched' = {calls[i].path : i \in 1..issued}
    /\ confPc' = "applied"
    /\ UNCHANGED confOp
    /\ UNCHANGED <<cmdVars, pathVars, trustVars, docVars, waVars, apVars, seekVars, ctxVars, execVars, sdkVars, jsonVars, acpVars, connVars, resVars, listVars, raceVars, ipcVars, toolVars>>

ApplyOperationReturn ==
    /\ confPc = "applied"
    /\ confPc' = "idle"
    /\ confOp' = NoOperation
    /\ confTouched' = {}
    /\ UNCHANGED <<cmdVars, pathVars, trustVars, docVars, waVars, apVars, seekVars, ctxVars, execVars, sdkVars, jsonVars, acpVars, connVars, resVars, listVars, raceVars, ipcVars, toolVars>>

ConfNext ==
    \/ ApplyValidated
    \/ ApplyOperationReturn
    \/ ApplyOperation

\* path is the root or lies under it
WithinRoot(path) == Len(path) >= Len(Root) /\ SubSeq(path, 1, Len(Root)) = Root

\* path lies strictly under the root
BelowRoot(path) == WithinRoot(path) /\ Len(path) > Len(Root)

\* The paths of an operation
OperationPaths(op) ==
    {op.path} \cup (IF op.kind = "UpdateFile" /\ IsSome(op.new_path) THEN {Unwrap(op.new_path)} ELSE {})

\* C33: every path validate_patch_path accepts is, joined to the workspace
\* root, lexically below the root, and an AddFile, DeleteFile or UpdateFile
\* (its move destination included) with validated paths touches no path
\* outside the root.
C33_StaysBelowRoot ==
    confPc = "applied" =>
        /\ \A raw_path \in OperationPaths(confOp) : BelowRoot(Join(Root, raw_path))
        /\ \A path \in confTouched : WithinRoot(path)

(***************************************************************************)
(* Concurrent CodeExecutor::execute calls in one workspace                 *)
(* (vtcode-core/src/exec/code_executor.rs).                                *)
(***************************************************************************)

\* The concurrent execute calls and the programs they are given
Executions == {"e1", "e2"}
Programs == {"p1", "p2"}

NoScript == "no file"
Unread == "unread"

RaceInit ==
    /\ codeTemp = NoScript
    /\ racePc = [e \in Executions |-> "idle"]
    /\ raceCode = [e \in Executions |-> "none"]
    /\ raceRan = [e \in Executions |-> Unread]

\* execute(code) up to tokio::fs::write(&code_file, &complete_code); code_file
\* is workspace_root.join(".vtcode").join("code_temp"), the same path for
\* every call in the workspace
ExecuteWrite(e) ==
    /\ racePc[e] = "idle"
    /\ \E code \in Programs :
           /\ raceCode' = [raceCode EXCEPT ![e] = code]
           /\ codeTemp' = code
    /\ racePc' = [racePc EXCEPT ![e] = "written"]
    /\ raceRan' = [raceRan EXCEPT ![e] = Unread]
    /\ UNCHANGED <<cmdVars, pathVars, trustVars, docVars, waVars, apVars, seekVars, ctxVars, execVars, sdkVars, jsonVars, acpVars, connVars, resVars, listVars, confVars, ipcVars, toolVars>>

\* AsyncProcessRunner::run spawns the interpreter with the path as argument
ExecuteRun(e) ==
    /\ racePc[e] = "written"
    /\ racePc' = [racePc EXCEPT ![e] = "spawned"]
    /\ UNCHANGED <<codeTemp, raceCode, raceRan>>
    /\ UNCHANGED <<cmdVars, pathVars, trustVars, docVars, waVars, apVars, seekVars, ctxVars, execVars, sdkVars, jsonVars, acpVars, connVars, resVars, listVars, confVars, ipcVars, toolVars>>

\* the interpreter opens the script at the path and runs what it finds there
InterpreterRead(e) ==
    /\ racePc[e] = "spawned"
    /\ raceRan' = [raceRan EXCEPT ![e] = codeTemp]
    /\ racePc' = [racePc EXCEPT ![e] = "ran"]
    /\ UNCHANGED <<codeTemp, raceCode>>
    /\ UNCHANGED <<cmdVars, pathVars, trustVars, docVars, waVars, apVars, seekVars, ctxVars, execVars, sdkVars, jsonVars, acpVars, connVars, resVars, listVars, confVars, ipcVars, toolVars>>

\* the run is over: let _ = tokio::fs::remove_file(&code_file), and the result
ExecuteRemove(e) ==
    /\ racePc[e] = "ran"
    /\ codeTemp' = NoScript
    /\ racePc' = [racePc EXCEPT ![e] = "done"]
    /\ UNCHANGED <<raceCode, raceRan>>
    /\ UNCHANGED <<cmdVars, pathVars, trustVars, docVars, waVars, apVars, seekVars, ctxVars, execVars, sdkVars, jsonVars, acpVars, connVars, resVars, listVars, confVars, ipcVars, toolVars>>

\* the caller takes the result and may call again
ExecuteReturn(e) ==
    /\ racePc[e] = "done"
    /\ racePc' = [racePc EXCEPT ![e] = "idle"]
    /\ raceCode' = [raceCode EXCEPT ![e] = "none"]
    /\ raceRan' = [raceRan EXCEPT ![e] = Unread]
    /\ UNCHANGED codeTemp
    /\ UNCHANGED <<cmdVars, pathVars, trustVars, docVars, waVars, apVars, seekVars, ctxVars, execVars, sdkVars, jsonVars, acpVars, connVars, resVars, listVars, confVars, ipcVars, toolVars>>

RaceNext ==
    \/ \E e \in Executions : ExecuteWrite(e)
    \/ \E e \in Executions : ExecuteRun(e)
    \/ \E e \in Executions : InterpreterRead(e)
    \/ \E e \in Executions : ExecuteRemove(e)
    \/ \E e \in Executions : ExecuteReturn(e)

\* C36: of two concurrent execute calls in one workspace each runs its own
\* program: the interpreter of a call never reads the script another call
\* wrote, and never finds its script removed by another call.
C36_EachRunsItsOwnProgram ==
    \A e \in Executions : raceRan[e] \in {Unread, raceCode[e]}

(***************************************************************************)
(* ToolIpcHandler::read_request and wait_for_request                       *)
(* (vtcode-core/src/exec/sdk_ipc.rs).                                      *)
(***************************************************************************)

\* Requests written, requests returned and clock ticks in a run
MaxIpcRequests == 2
MaxDeliveries == 3
MaxIpcClock == 3

\* Timeouts of wait_for_request, in sleeps
WaitTimeouts == {0, 1}

\* request.json: absent, or the request with its id, well-formed or not
NoRequestFile == [exists |-> FALSE, id |-> 0, valid |-> TRUE]
RequestFile(id, valid) == [exists |-> TRUE, id |-> id, valid |-> valid]

NotReturned == [kind |-> "none", value |-> NoneOpt]

\* read_request on the file: Ok(None) without a file, an error on a content
\* that does not parse, else Ok(Some(request)) after remove_file, whose
\* failure is ignored
read_request(file, removed) ==
    IF ~file.exists THEN [ret |-> Ok(NoneOpt), file |-> file]
    ELSE IF ~file.valid
    THEN [ret |-> Err("failed to parse request JSON", NoneOpt), file |-> file]
    ELSE [ret |-> Ok(Some(file.id)), file |-> IF removed THEN NoRequestFile ELSE file]

\* the ids delivered after a call returned ret
DeliveredAfter(ret) ==
    IF ret.kind = "Ok" /\ IsSome(ret.value)
    THEN Append(ipcDelivered, Unwrap(ret.value))
    ELSE ipcDelivered

IpcInit ==
    /\ ipcFile = NoRequestFile
    /\ ipcWritten = 0
    /\ ipcDelivered = <<>>
    /\ ipcReturn = NotReturned
    /\ waitPc = "idle"
    /\ waitStart = [start |-> 0, timeout |-> 0]
    /\ ipcClock = 0

\* the executed code writes a request to request.json
WriteRequest ==
    /\ ipcWritten < MaxIpcRequests
    /\ \E valid \in BOOLEAN : ipcFile' = RequestFile(ipcWritten + 1, valid)
    /\ ipcWritten' = ipcWritten + 1
    /\ UNCHANGED <<ipcDelivered, ipcReturn, waitPc, waitStart, ipcClock>>
    /\ UNCHANGED <<cmdVars, pathVars, trustVars, docVars, waVars, apVars, seekVars, ctxVars, execVars, sdkVars, jsonVars, acpVars, connVars, resVars, listVars, confVars, raceVars, toolVars>>

\* one poll: the file and the history after read_request returned
Polled(read) ==
    /\ ipcFile' = read.file
    /\ ipcDelivered' = DeliveredAfter(read.ret)

\* ToolIpcHandler::read_request called on its own
ReadRequest ==
    /\ waitPc = "idle"
    /\ Len(ipcDelivered) < MaxDeliveries
    /\ \E removed \in BOOLEAN :
         \E read \in {read_request(ipcFile, removed)} :
            /\ Polled(read)
            /\ ipcReturn' = read.ret
    /\ UNCHANGED <<ipcWritten, waitPc, waitStart, ipcClock>>
    /\ UNCHANGED <<cmdVars, pathVars, trustVars, docVars, waVars, apVars, seekVars, ctxVars, execVars, sdkVars, jsonVars, acpVars, connVars, resVars, listVars, confVars, raceVars, toolVars>>

\* ToolIpcHandler::wait_for_request(timeout) is called
WaitForRequest ==
    /\ waitPc = "idle"
    /\ Len(ipcDelivered) < MaxDeliveries
    /\ \E timeout \in WaitTimeouts : waitStart' = [start |-> ipcClock, timeout |-> timeout]
    /\ waitPc' = "loop"
    /\ ipcReturn' = NotReturned
    /\ UNCHANGED <<ipcFile, ipcWritten, ipcDelivered, ipcClock>>
    /\ UNCHANGED <<cmdVars, pathVars, trustVars, docVars, waVars, apVars, seekVars, ctxVars, execVars, sdkVars, jsonVars, acpVars, connVars, resVars, listVars, confVars, raceVars, toolVars>>

\* wait_for_request, one turn of the loop up to the sleep: the request or the
\* error of read_request is returned, or None once the timeout has elapsed
WaitPoll ==
    /\ waitPc = "loop"
    /\ \E removed \in BOOLEAN :
         \E read \in {read_request(ipcFile, removed)} :
            /\ Polled(read)
            /\ IF read.ret # Ok(NoneOpt)
               THEN ipcReturn' = read.ret /\ waitPc' = "idle"
               ELSE IF ipcClock - waitStart.start > waitStart.timeout
               THEN ipcReturn' = Ok(NoneOpt) /\ waitPc' = "idle"
               ELSE ipcReturn' = ipcReturn /\ waitPc' = "sleep"
    /\ UNCHANGED <<ipcWritten, waitStart, ipcClock>>
    /\ UNCHANGED <<cmdVars, pathVars, trustVars, docVars, waVars, apVars, seekVars, ctxVars, execVars, sdkVars, jsonVars, acpVars, connVars, resVars, listVars, confVars, raceVars, toolVars>>

\* wait_for_request: sleep(Duration::from_millis(100))
WaitSleep ==
    /\ waitPc = "sleep"
    /\ ipcClock < MaxIpcClock
    /\ ipcClock' = ipcClock + 1
    /\ waitPc' = "loop"
    /\ UNCHANGED <<ipcFile, ipcWritten, ipcDelivered, ipcReturn, waitStart>>
    /\ UNCHANGED <<cmdVars, pathVars, trustVars, docVars, waVars, apVars, seekVars, ctxVars, execVars, sdkVars, jsonVars, acpVars, connVars, resVars, listVars, confVars, raceVars, toolVars>>

IpcNext ==
    \/ WriteRequest
    \/ ReadRequest
    \/ WaitForRequest
    \/ WaitPoll
    \/ WaitSleep

\* the number of times id was returned to a caller
Deliveries(id) == Cardinality({i \in 1..Len(ipcDelivered) : ipcDelivered[i] = id})

\* C37: a request written once to request.json is delivered at most once:
\* after read_request or wait_for_request returned it, request.json no longer
\* holds it, and no later poll returns it again.
C37_DeliveredAtMostOnce ==
    /\ \A id \in 1..ipcWritten : Deliveries(id) <= 1
    /\ (ipcReturn.kind = "Ok" /\ IsSome(ipcReturn.value))
           => ~(ipcFile.exists /\ ipcFile.id = Unwrap(ipcReturn.value))

(***************************************************************************)
(* The ACP tools (vtcode-tools/src/acp_tool.rs).                           *)
(***************************************************************************)

\* The agents registered through the tools
ToolAgents ==
    {AgentInfo("a1", {"c1"}, online, NoneOpt) : online \in BOOLEAN}
    \cup {AgentInfo("a2", {}, TRUE, NoneOpt)}

\* A field of the JSON arguments: absent, a string, or a value of another type
Absent == [present |-> FALSE, string |-> FALSE, text |-> ""]
Str(text) == [present |-> TRUE, string |-> TRUE, text |-> text]
NonString == [present |-> TRUE, string |-> FALSE, text |-> ""]

\* obj.get(key).and_then(|v| v.as_str())
as_str(field) == IF field.present /\ field.string THEN Some(field.text) ELSE NoneOpt

\* The arguments of acp_discover
DiscoveryModes == {"list_all", "list_online", "by_capability", "by_id"}
DiscoveryArgs ==
    [object : {TRUE},
     mode : {Absent, NonString} \cup {Str(m) : m \in DiscoveryModes \cup {"other"}},
     capability : {Absent, NonString, Str("c1")},
     agent_id : {Absent, NonString, Str("a1")}]
    \cup {[object |-> FALSE, mode |-> Absent, capability |-> Absent, agent_id |-> Absent]}

\* The arguments of acp_call
CallArgs == [object : {TRUE}, action : {Str("run")}, remote_agent_id : {Str(id) : id \in AgentIds}]

\* AcpDiscoveryTool::validate_args: None, or the message of the error
AcpDiscoveryTool_validate_args(args) ==
    IF ~args.object THEN "Arguments must be an object"
    ELSE IF as_str(args.mode) = Some("by_capability")
    THEN IF ~args.capability.present
         THEN "Missing required field for by_capability mode: capability"
         ELSE None
    ELSE IF as_str(args.mode) = Some("by_id")
    THEN IF ~args.agent_id.present
         THEN "Missing required field for by_id mode: agent_id"
         ELSE None
    ELSE IF IsSome(as_str(args.mode)) THEN "Unknown discovery mode"
    ELSE None

\* What a tool's execute returns: the error, or the agents of the answer
ToolOk(agents) == [error |-> None, agents |-> agents]
ToolErr(message) == [error |-> message, agents |-> {}]

\* AcpDiscoveryTool::execute, the match on the mode, on the client's registry
DiscoveryMatch(args, mode, agents) ==
    CASE mode = "list_all" -> ToolOk(list_all(agents))
      [] mode = "list_online" -> ToolOk(list_online(agents))
      [] mode = "by_capability" ->
            IF IsSome(as_str(args.capability))
            THEN ToolOk(find_by_capability(agents, Unwrap(as_str(args.capability))))
            ELSE ToolErr("Invalid capability")
      [] mode = "by_id" ->
            IF ~IsSome(as_str(args.agent_id)) THEN ToolErr("Invalid agent_id")
            ELSE IF find(agents, Unwrap(as_str(args.agent_id))).kind = "Ok"
            THEN ToolOk({find(agents, Unwrap(as_str(args.agent_id))).value})
            ELSE ToolErr("Agent not found")
      [] OTHER -> ToolErr("Unknown discovery mode")

\* AcpDiscoveryTool::execute; a mode that is absent or not a string is
\* list_online
AcpDiscoveryTool_execute(args, client) ==
    IF ~args.object THEN ToolErr("Arguments must be an object")
    ELSE IF ~IsSome(client) THEN ToolErr("ACP client not initialized")
    ELSE DiscoveryMatch(args,
                        IF IsSome(as_str(args.mode)) THEN Unwrap(as_str(args.mode)) ELSE "list_online",
                        Unwrap(client))

\* AcpTool::execute up to the answer of the remote agent: call_sync resolves
\* remote_agent_id in the registry of the client
AcpTool_execute(args, client, sent) ==
    IF ~args.object THEN ToolErr("Arguments must be an object")
    ELSE IF ~IsSome(as_str(args.action)) THEN ToolErr("Invalid action")
    ELSE IF ~IsSome(as_str(args.remote_agent_id)) THEN ToolErr("Invalid remote_agent_id")
    ELSE IF ~IsSome(client) THEN ToolErr("ACP client not initialized")
    ELSE IF find(Unwrap(client), Unwrap(as_str(args.remote_agent_id))).kind # "Ok"
    THEN ToolErr("ACP call failed: AgentNotFound")
    ELSE IF sent THEN ToolOk({find(Unwrap(client), Unwrap(as_str(args.remote_agent_id))).value})
    ELSE ToolErr("ACP call failed: NetworkError")

NoToolCall == [tool |-> "none", pc |-> "none", args |-> Absent, validated |-> None,
               result |-> ToolErr("none")]

ToolInit ==
    /\ toolClient = NoneOpt
    /\ toolRegistry = EmptyMap
    /\ toolCall = NoToolCall

\* AcpTool::initialize: a client is built, with the registry AcpClient::new
\* creates for it, and stored
AcpToolInitialize ==
    /\ toolClient # Some(EmptyMap)
    /\ toolClient' = Some(EmptyMap)
    /\ UNCHANGED <<toolRegistry, toolCall>>
    /\ UNCHANGED <<cmdVars, pathVars, trustVars, docVars, waVars, apVars, seekVars, ctxVars, execVars, sdkVars, jsonVars, acpVars, connVars, resVars, listVars, confVars, raceVars, ipcVars>>

\* AcpTool::registry().register(agent)
ToolRegistryRegister ==
    /\ \E agent \in ToolAgents :
           /\ IF agent.id \in DOMAIN toolRegistry THEN toolRegistry[agent.id] # agent ELSE TRUE
           /\ toolRegistry' = MapInsert(toolRegistry, agent.id, agent)
    /\ UNCHANGED <<toolClient, toolCall>>
    /\ UNCHANGED <<cmdVars, pathVars, trustVars, docVars, waVars, apVars, seekVars, ctxVars, execVars, sdkVars, jsonVars, acpVars, connVars, resVars, listVars, confVars, raceVars, ipcVars>>

\* client.registry().register(agent), by a holder of the client
ClientRegistryRegister ==
    /\ IsSome(toolClient)
    /\ \E agent \in ToolAgents :
           /\ IF agent.id \in DOMAIN Unwrap(toolClient)
              THEN Unwrap(toolClient)[agent.id] # agent
              ELSE TRUE
           /\ toolClient' = Some(MapInsert(Unwrap(toolClient), agent.id, agent))
    /\ UNCHANGED <<toolRegistry, toolCall>>
    /\ UNCHANGED <<cmdVars, pathVars, trustVars, docVars, waVars, apVars, seekVars, ctxVars, execVars, sdkVars, jsonVars, acpVars, connVars, resVars, listVars, confVars, raceVars, ipcVars>>

\* acp_call: AcpTool::execute(args)
AcpCallExecute ==
    /\ \E args \in CallArgs, sent \in BOOLEAN :
           toolCall' = [tool |-> "acp_call", pc |-> "executed", args |-> args,
                        validated |-> None,
                        result |-> AcpTool_execute(args, toolClient, sent)]
    /\ UNCHANGED <<toolClient, toolRegistry>>
    /\ UNCHANGED <<cmdVars, pathVars, trustVars, docVars, waVars, apVars, seekVars, ctxVars, execVars, sdkVars, jsonVars, acpVars, connVars, resVars, listVars, confVars, raceVars, ipcVars>>

\* acp_discover: AcpDiscoveryTool::validate_args(args)
DiscoveryValidateArgs ==
    /\ toolCall.pc # "validated"
    /\ \E args \in DiscoveryArgs :
           toolCall' = [tool |-> "acp_discover", pc |-> "validated", args |-> args,
                        validated |-> AcpDiscoveryTool_validate_args(args),
                        result |-> ToolErr("none")]
    /\ UNCHANGED <<toolClient, toolRegistry>>
    /\ UNCHANGED <<cmdVars, pathVars, trustVars, docVars, waVars, apVars, seekVars, ctxVars, execVars, sdkVars, jsonVars, acpVars, connVars, resVars, listVars, confVars, raceVars, ipcVars>>

\* acp_discover: AcpDiscoveryTool::execute(args) on the same arguments
DiscoveryExecute ==
    /\ toolCall.tool = "acp_discover"
    /\ toolCall.pc = "validated"
    /\ toolCall' = [toolCall EXCEPT !.pc = "executed",
                                    !.result = AcpDiscoveryTool_execute(toolCall.args, toolClient)]
    /\ UNCHANGED <<toolClient, toolRegistry>>
    /\ UNCHANGED <<cmdVars, pathVars, trustVars, docVars, waVars, apVars, seekVars, ctxVars, execVars, sdkVars, jsonVars, acpVars, connVars, resVars, listVars, confVars, raceVars, ipcVars>>

ToolNext ==
    \/ AcpToolInitialize
    \/ ToolRegistryRegister
    \/ ClientRegistryRegister
    \/ AcpCallExecute
    \/ DiscoveryValidateArgs
    \/ DiscoveryExecute

\* C39: after AcpTool::initialize, acp_call on an agent registered through
\* the registry AcpTool::registry() returns does not fail with AgentNotFound:
\* execute resolves remote_agent_id in that registry.
C39_RegisteredAgentCallable ==
    ( /\ toolCall.tool = "acp_call"
      /\ toolCall.pc = "executed"
      /\ IsSome(toolClient)
      /\ toolCall.args.remote_agent_id.text \in DOMAIN toolRegistry )
    => toolCall.result.error # "ACP call failed: AgentNotFound"

\* execute has an arm for the mode and the field the arm needs is given
Handled(args) ==
    /\ args.object
    /\ IsSome(as_str(args.mode))
    /\ Unwrap(as_str(args.mode)) \in DiscoveryModes
    /\ Unwrap(as_str(args.mode)) = "by_capability" => IsSome(as_str(args.capability))
    /\ Unwrap(as_str(args.mode)) = "by_id" => IsSome(as_str(args.agent_id))

\* C40: validate_args and execute of acp_discover agree on the modes: the
\* arguments of every mode execute handles, with the field the mode needs,
\* pass validate_args; the arguments validate_args accepts are not refused
\* by execute as an unknown mode; and without a mode both accept and the
\* online agents are listed.
C40_ModesAgree ==
    (toolCall.tool = "acp_discover" /\ toolCall.pc = "executed") =>
        /\ Handled(toolCall.args) => toolCall.validated = None
        /\ toolCall.validated = None => toolCall.result.error # "Unknown discovery mode"
        /\ (toolCall.args.object /\ ~toolCall.args.mode.present /\ IsSome(toolClient))
               => /\ toolCall.validated = None
                  /\ toolCall.result = ToolOk(list_online(Unwrap(toolClient)))

(***************************************************************************)
(* Specifications.                                                         *)
(***************************************************************************)
Init ==
    /\ CmdInit
    /\ PathInit
    /\ TrustInit
    /\ DocInit
    /\ WaInit
    /\ ApInit
    /\ SeekInit
    /\ CtxInit
    /\ ExecInit
    /\ SdkInit
    /\ JsonInit
    /\ AcpInit
    /\ ConnInit
    /\ ResolverInit
    /\ ListInit
    /\ ConfInit
    /\ RaceInit
    /\ IpcInit
    /\ ToolInit

SpecCmd == Init /\ [][CmdNext]_vars
SpecPath == Init /\ [][PathNext]_vars
SpecTrust == Init /\ [][TrustNext]_vars
SpecDoc == Init /\ [][DocNext]_vars
SpecWrite == Init /\ [][WaNext]_vars
SpecApply == Init /\ [][ApNext]_vars
SpecSeek == Init /\ [][SeekNext]_vars
SpecContext == Init /\ [][CtxNext]_vars
SpecExec == Init /\ [][ExecNext]_vars
SpecSdk == Init /\ [][SdkNext]_vars
SpecJson == Init /\ [][JsonNext]_vars
SpecRegistry == Init /\ [][RegistryNext]_vars
SpecAcp == Init /\ [][AcpNext]_vars
SpecConn == Init /\ [][ConnNext]_vars
SpecResolver == Init /\ [][ResolverNext]_vars
SpecList == Init /\ [][ListNext]_vars
SpecConfine == Init /\ [][ConfNext]_vars
SpecRace == Init /\ [][RaceNext]_vars
SpecIpc == Init /\ [][IpcNext]_vars
SpecTool == Init /\ [][ToolNext]_vars

\* The executor with its own steps and the child's always taken in the end;
\* nothing in execute calls the ToolIpcHandler, so its calls stay optional
SpecExecFair == SpecExec /\ WF_vars(ExecuteNext) /\ WF_vars(ChildNext)

Next ==
    \/ CmdNext
    \/ PathNext
    \/ TrustNext
    \/ DocNext
    \/ WaNext
    \/ ApNext
    \/ SeekNext
    \/ CtxNext
    \/ ExecNext
    \/ SdkNext
    \/ JsonNext
    \/ AcpNext
    \/ ConnNext
    \/ ResolverNext
    \/ ListNext
    \/ ConfNext
    \/ RaceNext
    \/ IpcNext
    \/ ToolNext

Spec == Init /\ [][Next]_vars

=============================================================================
